---- MODULE Spec2Model ----
(***************************************************************************)
(* State-machine model of the request authentication and replay-protection *)
(* subsystem of nebulauth-sdk (src/src/lib.rs): NebulAuthClient::new,      *)
(* post_internal, build_auth_headers, build_signing_headers,               *)
(* canonical_path, endpoint_url and the free functions they use.           *)
(*                                                                         *)
(* Strings are sequences of one-character strings, so that concatenation,  *)
(* prefixes, separators and encodings are computed and not assumed.        *)
(***************************************************************************)
EXTENDS Integers, Sequences, FiniteSets, TLC

(***************************************************************************)
(* Characters and bytes                                                    *)
(***************************************************************************)

\* The printable ASCII characters, code 32 (space) to 126 (~), in code order
\* (code 96 is written <grave>).
AsciiTable ==
  <<
     " ", "!", "\"", "#", "$", "%", "&", "'", "(", ")", "*", "+",
     ",", "-", ".", "/", "0", "1", "2", "3", "4", "5", "6", "7",
     "8", "9", ":", ";", "<", "=", ">", "?", "@", "A", "B", "C",
     "D", "E", "F", "G", "H", "I", "J", "K", "L", "M", "N", "O",
     "P", "Q", "R", "S", "T", "U", "V", "W", "X", "Y", "Z", "[",
     "\\", "]", "^", "_", "<grave>", "a", "b", "c", "d", "e", "f", "g",
     "h", "i", "j", "k", "l", "m", "n", "o", "p", "q", "r", "s",
     "t", "u", "v", "w", "x", "y", "z", "{", "|", "}", "~"
  >>

\* The line feed, "\n" in the format string of build_signing_headers.
NL == "\n"

\* The byte of a character (str::as_bytes on ASCII text).
AsciiCode ==
  [c \in {AsciiTable[i] : i \in 1..Len(AsciiTable)} \cup {NL} |->
     IF c = NL THEN 10
     ELSE 31 + (CHOOSE i \in 1..Len(AsciiTable) : AsciiTable[i] = c)]

Ascii(c) == AsciiCode[c]

\* str::as_bytes: the bytes of a string.
as_bytes(s) == [i \in 1..Len(s) |-> Ascii(s[i])]

\* char::to_uppercase on one ASCII character: a..z map to A..Z.
UpperChar(c) ==
  IF c # NL /\ Ascii(c) >= 97 /\ Ascii(c) <= 122
    THEN AsciiTable[Ascii(c) - 32 - 31]
    ELSE c

\* str::to_uppercase.
to_uppercase(s) == [i \in 1..Len(s) |-> UpperChar(s[i])]

\* str::starts_with: character-wise prefix test.
starts_with(s, p) ==
  /\ Len(p) <= Len(s)
  /\ SubSeq(s, 1, Len(p)) = p

\* str::trim_start_matches(c): drop every leading occurrence of c.
RECURSIVE trim_start_matches(_, _)
trim_start_matches(s, c) ==
  IF s # <<>> /\ Head(s) = c THEN trim_start_matches(Tail(s), c) ELSE s

\* str::trim_end_matches(c): drop every trailing occurrence of c.
RECURSIVE trim_end_matches(_, _)
trim_end_matches(s, c) ==
  IF s # <<>> /\ s[Len(s)] = c
    THEN trim_end_matches(SubSeq(s, 1, Len(s) - 1), c)
    ELSE s

(***************************************************************************)
(* hex_lower, nibble_to_hex                                                *)
(***************************************************************************)

nibble_to_hex(n) ==
  IF n <= 9 THEN AsciiTable[(48 + n) - 31]
            ELSE AsciiTable[(97 + (n - 10)) - 31]

\* Two characters per byte, the high nibble first.
hex_lower(bytes) ==
  [i \in 1..(2 * Len(bytes)) |->
     IF i % 2 = 1 THEN nibble_to_hex((bytes[(i + 1) \div 2] \div 16) % 16)
                  ELSE nibble_to_hex(bytes[i \div 2] % 16)]

(***************************************************************************)
(* u128::to_string                                                         *)
(***************************************************************************)

RECURSIVE to_string(_)
to_string(n) ==
  IF n < 10 THEN <<AsciiTable[(48 + n) - 31]>>
  ELSE to_string(n \div 10) \o <<AsciiTable[(48 + (n % 10)) - 31]>>

(***************************************************************************)
(* URL_SAFE_NO_PAD.encode                                                  *)
(***************************************************************************)

\* The URL-safe base64 alphabet, value 0 to 63.
Base64UrlAlphabet ==
  <<
     "A", "B", "C", "D", "E", "F", "G", "H", "I", "J", "K", "L", "M", "N", "O", "P",
     "Q", "R", "S", "T", "U", "V", "W", "X", "Y", "Z", "a", "b", "c", "d", "e", "f",
     "g", "h", "i", "j", "k", "l", "m", "n", "o", "p", "q", "r", "s", "t", "u", "v",
     "w", "x", "y", "z", "0", "1", "2", "3", "4", "5", "6", "7", "8", "9", "-", "_"
  >>

B64Char(v) == Base64UrlAlphabet[v + 1]

\* The byte at position i, or 0 past the end (the bits a final, partial
\* group is filled up with).
ByteOrZero(bytes, i) == IF i <= Len(bytes) THEN bytes[i] ELSE 0

\* The six-bit value at position k (0 to 3) of the group of three bytes
\* that starts at position first.
Sextet(bytes, first, k) ==
  LET b1 == ByteOrZero(bytes, first)
      b2 == ByteOrZero(bytes, first + 1)
      b3 == ByteOrZero(bytes, first + 2)
  IN CASE k = 0 -> b1 \div 4
       [] k = 1 -> (b1 % 4) * 16 + b2 \div 16
       [] k = 2 -> (b2 % 16) * 4 + b3 \div 64
       [] k = 3 -> b3 % 64

\* Base64 without padding: three bytes give four characters, a final group
\* of two bytes gives three and a final single byte gives two.
URL_SAFE_NO_PAD_encode(bytes) ==
  [j \in 1..((4 * Len(bytes) + 2) \div 3) |->
     B64Char(Sextet(bytes, 3 * ((j - 1) \div 4) + 1, (j - 1) % 4))]

(***************************************************************************)
(* Option<T>, Result<T, NebulAuthError>, HashMap<String, String>           *)
(***************************************************************************)

NoneOpt == [some |-> FALSE]
Some(v) == [some |-> TRUE, v |-> v]

\* The variants of NebulAuthError.
ErrorKinds == {"Config", "Request", "Url", "Crypto"}

Ok(v) == [ok |-> TRUE, v |-> v]
\* An error: its variant and its message.
Err(kind, msg) == [ok |-> FALSE, err |-> kind, msg |-> msg]

\* A HashMap<String, String> is a function from header names to values.
EmptyMap == [n \in {} |-> <<>>]

\* HashMap::insert: the new value replaces an old one of the same key.
insert(m, k, v) == [n \in DOMAIN m \cup {k} |-> IF n = k THEN v ELSE m[n]]

\* HashMap::remove.
remove(m, k) == [n \in DOMAIN m \ {k} |-> m[n]]

\* HashMap::extend: the entries of other replace those of m key by key.
extend(m, other) ==
  [n \in DOMAIN m \cup DOMAIN other |-> IF n \in DOMAIN other THEN other[n] ELSE m[n]]

(***************************************************************************)
(* Text constants of the source                                            *)
(***************************************************************************)

\* "Bearer " of format!("Bearer {token}").
BearerPrefix == <<"B", "e", "a", "r", "e", "r", " ">>

\* The method post_internal passes to build_auth_headers.
POST == <<"P", "O", "S", "T">>

\* ReplayProtectionMode.
ReplayProtectionMode == {"None", "Nonce", "Strict"}

(***************************************************************************)
(* Sha256 and Hmac<Sha256>                                                 *)
(*                                                                         *)
(* The two digests are library code.  They are modelled as ideal,          *)
(* collision-free functions of their input: the digest determines the      *)
(* input (and, for the keyed digest, the key), which is the property the   *)
(* program relies on.  The hexadecimal encoding of the digest is computed   *)
(* as the source computes it.                                              *)
(***************************************************************************)

\* The length in bytes of a SHA-256 digest.
Sha256Len == 32

\* Sha256::new().update(bytes).finalize(): the input in blocks of the
\* digest length, the last one zero-padded, block k added in with weight k
\* (an input shorter than a digest is its own digest, zero-padded; the
\* inputs of the model are shorter than three digests and hold no zero
\* byte, and distinct ones have distinct digests).
Sha256Digest(bytes) ==
  LET byte(j) == IF j <= Len(bytes) THEN bytes[j] ELSE 0
  IN [i \in 1..Sha256Len |->
        (byte(i) + 2 * byte(i + Sha256Len) + 3 * byte(i + 2 * Sha256Len)) % 256]

\* A faulty new_from_slice: the empty key is refused.
HmacSha256_new_from_slice_RejectsEmptyKey(key) ==
  IF key = <<>> THEN Err("InvalidLength", "Invalid Length") ELSE Ok(key)

\* HmacSha256::new_from_slice: HMAC takes a key of any length, the empty
\* one too.
HmacSha256_new_from_slice(key) == Ok(key)

\* HmacSha256::new_from_slice(key) accepts a key of any length;
\* update(msg).finalize(): the length-prefixed key followed by the message.
HmacSha256(key, msg) == <<Len(key)>> \o key \o msg

\* sha256_hex
sha256_hex(input) == hex_lower(Sha256Digest(as_bytes(input)))

(***************************************************************************)
(* url::Url                                                                *)
(*                                                                         *)
(* The model parses URLs of the shape scheme://host/path, the shape of     *)
(* every URL the client builds: a lower-case scheme, "://", a non-empty    *)
(* host and a path that is "/" when absent.                                *)
(***************************************************************************)

\* The first position at or after from where s holds c, or 0.
IndexOf(s, c, from) ==
  LET hits == {i \in from..Len(s) : s[i] = c} IN
  IF hits = {} THEN 0 ELSE CHOOSE i \in hits : \A j \in hits : i <= j

\* The last position where s holds c, or 0.
LastIndexOf(s, c) ==
  LET hits == {i \in 1..Len(s) : s[i] = c} IN
  IF hits = {} THEN 0 ELSE CHOOSE i \in hits : \A j \in hits : i >= j

IsLowerAlpha(c) == c # NL /\ Ascii(c) >= 97 /\ Ascii(c) <= 122

\* Url::parse: Ok([scheme, host, path]) or the Url error.
Url_parse(s) ==
  LET colon == IndexOf(s, ":", 1) IN
  IF \/ colon <= 1
     \/ \E i \in 1..(colon - 1) : ~IsLowerAlpha(s[i])
     \/ Len(s) < colon + 2
     \/ s[colon + 1] # "/"
     \/ s[colon + 2] # "/"
  THEN Err("Url", "url parse failed")
  ELSE
    LET rest  == SubSeq(s, colon + 3, Len(s))
        slash == IndexOf(rest, "/", 1)
        host  == IF slash = 0 THEN rest ELSE SubSeq(rest, 1, slash - 1)
        path  == IF slash = 0 THEN <<"/">> ELSE SubSeq(rest, slash, Len(rest))
    IN IF host = <<>> THEN Err("Url", "url parse failed")
       ELSE Ok([scheme |-> SubSeq(s, 1, colon - 1), host |-> host, path |-> path])

\* Url::to_string
Url_to_string(u) == u.scheme \o <<":", "/", "/">> \o u.host \o u.path

\* The fields of s between the occurrences of sep.
RECURSIVE Split(_, _)
Split(s, sep) ==
  LET i == IndexOf(s, sep, 1) IN
  IF i = 0 THEN <<s>>
  ELSE <<SubSeq(s, 1, i - 1)>> \o Split(SubSeq(s, i + 1, Len(s)), sep)

\* The segments of a path with "." dropped and ".." taking the segment
\* before it along; a dot segment at the end leaves the path ending in "/".
RECURSIVE DotSegments(_, _)
DotSegments(segments, kept) ==
  IF segments = <<>> THEN kept
  ELSE LET segment == Head(segments)
           atEnd   == Len(segments) = 1
           closed(out) == IF atEnd THEN Append(out, <<>>) ELSE out
       IN IF segment = <<".">>
            THEN DotSegments(Tail(segments), closed(kept))
          ELSE IF segment = <<".", ".">>
            THEN DotSegments(Tail(segments),
                             closed(IF kept = <<>> THEN kept
                                    ELSE SubSeq(kept, 1, Len(kept) - 1)))
          ELSE DotSegments(Tail(segments), Append(kept, segment))

\* The path made of the segments, each after a "/".
RECURSIVE PathOf(_)
PathOf(segments) ==
  IF segments = <<>> THEN <<>>
  ELSE <<"/">> \o Head(segments) \o PathOf(Tail(segments))

\* The path of a URL after the url crate has removed its dot segments.
remove_dot_segments(path) ==
  LET kept == DotSegments(Tail(Split(path, "/")), <<>>) IN
  IF kept = <<>> THEN <<"/">> ELSE PathOf(kept)

\* Url::join: an absolute reference replaces the base; a relative one
\* replaces what follows the last "/" of the base's path, and the dot
\* segments of the result are removed.
Url_join(base, reference) ==
  IF Url_parse(reference).ok THEN Url_parse(reference)
  ELSE IF reference = <<>> THEN Ok(base)
  ELSE Ok([base EXCEPT !.path =
             remove_dot_segments(
               SubSeq(base.path, 1, LastIndexOf(base.path, "/")) \o reference)])

(***************************************************************************)
(* serde_json::to_string of a payload                                      *)
(***************************************************************************)

\* A payload is a JSON object of string members, given as the sequence of
\* its <<name, value>> pairs in the order serde_json writes them.
RECURSIVE JsonMembers(_)
JsonMembers(members) ==
  IF members = <<>> THEN <<>>
  ELSE <<"\"">> \o members[1][1] \o <<"\"", ":", "\"">> \o members[1][2] \o <<"\"">>
       \o (IF Len(members) > 1 THEN <<",">> ELSE <<>>)
       \o JsonMembers(Tail(members))

serde_json_to_string(payload) == <<"{">> \o JsonMembers(payload) \o <<"}">>

(***************************************************************************)
(* NebulAuthClient                                                         *)
(***************************************************************************)

DEFAULT_BASE_URL == <<"h", "t", "t", "p", "s", ":", "/", "/", "a", "p", "i", ".", "n", "e", "b", "u", "l", "a", "u", "t", "h", ".", "c", "o", "m", "/", "a", "p", "i", "/", "v", "1">>

\* str::trim().is_empty(): nothing but white space.
IsBlank(s) == \A i \in 1..Len(s) : s[i] \in {" ", NL}

\* NebulAuthClient::new
new(options) ==
  LET base_url   == IF IsBlank(options.base_url) THEN DEFAULT_BASE_URL
                    ELSE options.base_url
      normalized == trim_end_matches(base_url, "/")
      parsed     == Url_parse(normalized)
  IN IF ~parsed.ok THEN Err("Url", "url parse failed")
     ELSE Ok([options   |-> [options EXCEPT !.base_url = base_url],
              base_url  |-> normalized,
              base_path |-> trim_end_matches(parsed.v.path, "/")])

\* A faulty canonical_path: a path that does not start with the base path
\* is an error.
canonical_path_FailsOnMismatch(self, url) ==
  LET target == Url_parse(url) IN
  IF ~target.ok THEN Err("Url", "url parse failed")
  ELSE
    LET path == target.v.path IN
    IF self.base_path # <<>> /\ ~starts_with(path, self.base_path)
      THEN Err("Config", "path is outside the base path")
      ELSE LET rest == SubSeq(path, Len(self.base_path) + 1, Len(path))
           IN Ok(IF ~starts_with(rest, <<"/">>) THEN <<"/">> \o rest ELSE rest)

\* NebulAuthClient::canonical_path
canonical_path(self, url) ==
  LET target == Url_parse(url) IN
  IF ~target.ok THEN Err("Url", "url parse failed")
  ELSE
    LET path     == target.v.path
        stripped == IF self.base_path # <<>> /\ starts_with(path, self.base_path)
                    THEN LET rest == SubSeq(path, Len(self.base_path) + 1, Len(path))
                         IN IF rest = <<>> THEN <<"/">> ELSE rest
                    ELSE path
    IN Ok(IF ~starts_with(stripped, <<"/">>) THEN <<"/">> \o stripped ELSE stripped)

\* NebulAuthClient::endpoint_url
endpoint_url(self, endpoint) ==
  LET base == Url_parse(self.base_url \o <<"/">>) IN
  IF ~base.ok THEN Err("Url", "url parse failed")
  ELSE LET full == Url_join(base.v, trim_start_matches(endpoint, "/"))
       IN IF ~full.ok THEN Err("Url", "url parse failed") ELSE Ok(Url_to_string(full.v))

\* current_timestamp_ms: the milliseconds since the epoch, or 0 when
\* SystemTime::duration_since fails.
current_timestamp_ms(reading) == IF reading.ok THEN reading.v ELSE 0

\* The length of the byte array random_nonce fills.
NonceBytes == 16

\* random_nonce, for the bytes the random source delivers.
random_nonce(bytes) == URL_SAFE_NO_PAD_encode(bytes)

\* A faulty canonical_string: a newline follows the body hash.
canonical_string_TrailingNewline(method, path, timestamp, nonce, body_hash) ==
  to_uppercase(method) \o <<NL>> \o path \o <<NL>> \o timestamp \o <<NL>>
    \o nonce \o <<NL>> \o body_hash \o <<NL>>

\* A faulty canonical_string: the nonce is left out of the signed string.
canonical_string_NoNonce(method, path, timestamp, nonce, body_hash) ==
  to_uppercase(method) \o <<NL>> \o path \o <<NL>> \o timestamp \o <<NL>>
    \o body_hash

\* The format! of build_signing_headers: the string that is signed.
canonical_string(method, path, timestamp, nonce, body_hash) ==
  to_uppercase(method) \o <<NL>> \o path \o <<NL>> \o timestamp \o <<NL>>
    \o nonce \o <<NL>> \o body_hash

\* The keyed digest of build_signing_headers, hex encoded.
sign(secret, canonical) ==
  hex_lower(HmacSha256(as_bytes(secret), as_bytes(canonical)))

\* The header map build_signing_headers returns.
signing_headers(timestamp, nonce, signature, body_hash) ==
  insert(insert(insert(insert(EmptyMap,
    "X-Timestamp", timestamp), "X-Nonce", nonce),
    "X-Signature", signature), "X-Body-Sha256", body_hash)

\* format!("Bearer {token}")
bearer(token) == BearerPrefix \o token

(***************************************************************************)
(* Bounds and input sets                                                   *)
(***************************************************************************)

\* How many different byte arrays the random source can deliver.
NumNonces == 2

\* How many different times the clock can show, besides failing.
NumClock == 1

\* The byte arrays rand::thread_rng().fill_bytes can leave in the buffer.
RandomDraws ==
  {[i \in 1..NonceBytes |-> (k * 83 + i * 29) % 256] : k \in 1..NumNonces}

\* What SystemTime::now().duration_since(UNIX_EPOCH) can give: an error
\* (a clock set before the epoch) or a number of milliseconds.
ClockReadings == {Err("SystemTime", "time before the epoch")} \cup {Ok(t * 1700) : t \in 1..NumClock}

\* The base URL a client is constructed with: a base path and a trailing "/".
BaseUrls == {<<"h", "t", "t", "p", ":", "/", "/", "h", "/", "v", "1", "/">>}

BearerTokens == {NoneOpt, Some(<<"t", "b">>)}
SigningSecrets == {NoneOpt, Some(<<"k", "s">>)}
AccessTokens == {NoneOpt, Some(<<"t", "a">>)}
PopKeys == {NoneOpt, Some(<<"k", "p">>)}

\* NebulAuthClientOptions (timeout_ms plays no part in header construction;
\* service_slug is read by redeem_key only).
ClientOptions ==
  [base_url : BaseUrls, bearer_token : BearerTokens,
   signing_secret : SigningSecrets, service_slug : {NoneOpt},
   replay_protection : ReplayProtectionMode]

\* Endpoints passed to post_internal.
Endpoints == {<<"/", "k">>, <<"v", "1", "/", "k">>}

\* Payloads passed to post_internal.
Payloads == {<< <<<<"k", "e", "y">>, <<"a">>>> >>, << <<<<"k", "e", "y">>, <<"b">>>> >>}

\* GenericPostOptions
PostOptions ==
  [use_pop : BOOLEAN, access_token : AccessTokens, pop_key : PopKeys]

(***************************************************************************)
(* State                                                                   *)
(***************************************************************************)

VARIABLES
  client,  \* the NebulAuthClient: options, base_url, base_path
  pc,      \* the position of the call in progress, "idle" between calls
  bah,     \* arguments and locals of build_auth_headers
  bsh,     \* locals of build_signing_headers
  ret,     \* what build_auth_headers returned: NoneOpt until it returns
  work,    \* what the call in progress has done: clock reads, nonces, HMACs
  last,    \* the previous call that signed (kept under SpecPair only)
  req,     \* locals of post_internal and the request it sends (SpecPost)
  flight   \* the calls in flight on the client, one frame each (SpecFlight)

vars == <<client, pc, bah, bsh, ret, work, last, req, flight>>

NoFrame == [method |-> <<>>, url |-> <<>>, body_string |-> <<>>,
            use_pop |-> FALSE, access_token |-> NoneOpt, pop_key |-> NoneOpt,
            token |-> <<>>, secret |-> <<>>, headers |-> EmptyMap]

NoSigning == [path |-> <<>>, timestamp |-> <<>>, nonce |-> <<>>,
              body_hash |-> <<>>, canonical |-> <<>>, headers |-> EmptyMap]

NoWork == [clock_reads |-> 0, nonce_draws |-> 0, hmacs |-> 0]

\* GenericPostOptions::default()
DefaultPostOptions ==
  [use_pop |-> FALSE, access_token |-> NoneOpt, pop_key |-> NoneOpt,
   extra_headers |-> EmptyMap]

\* post_internal not entered: the public call and its input, the arguments
\* of post_internal, its locals url, body_string
\* and headers, the request handed to reqwest and what the call returned;
\* serialized and auth_calls count the calls of serde_json::to_string and
\* of build_auth_headers.
NoRequest == [api |-> "none", input |-> NoneOpt,
              endpoint |-> <<>>, payload |-> <<>>,
              options |-> DefaultPostOptions,
              url |-> <<>>, body_string |-> <<>>, headers |-> EmptyMap,
              serialized |-> 0, auth_calls |-> 0,
              sent |-> NoneOpt, response |-> NoneOpt, result |-> NoneOpt]

\* No call in flight.
NoFlight == <<>>

Init ==
  /\ \E options \in ClientOptions : new(options).ok /\ client = new(options).v
  /\ pc = "idle"
  /\ bah = NoFrame
  /\ bsh = NoSigning
  /\ ret = NoneOpt
  /\ work = NoWork
  /\ last = NoneOpt
  /\ req = NoRequest
  /\ flight = NoFlight

(***************************************************************************)
(* Operations                                                              *)
(***************************************************************************)

\* NebulAuthClient::new with options of the given set: the program
\* constructs another client and goes on with it.
NewClientFrom(optionsSet) ==
  /\ pc = "idle"
  /\ \E options \in optionsSet :
       /\ new(options).ok
       /\ client' = new(options).v
  /\ client' # client
  /\ UNCHANGED <<pc, bah, bsh, ret, work, last, req, flight>>

NewClient == NewClientFrom(ClientOptions)

\* post_internal, with options of the given set, up to its call of
\* build_auth_headers: the URL is built, the payload serialized and
\* build_auth_headers entered with "POST".
PostInternalCallWith(optionsSet) ==
  /\ pc = "idle"
  /\ \E endpoint \in Endpoints, payload \in Payloads, options \in optionsSet :
       LET url == endpoint_url(client, endpoint) IN
       IF ~url.ok
         THEN /\ ret' = Some(Err("Url", "url parse failed"))
              /\ pc' = "done"
              /\ bah' = NoFrame
         ELSE /\ bah' = [NoFrame EXCEPT
                           !.method = POST,
                           !.url = url.v,
                           !.body_string = serde_json_to_string(payload),
                           !.use_pop = options.use_pop,
                           !.access_token = options.access_token,
                           !.pop_key = options.pop_key]
              /\ ret' = NoneOpt
              /\ pc' = "select"
  /\ bsh' = NoSigning
  /\ work' = NoWork
  /\ UNCHANGED <<client, last, req, flight>>

PostInternalCall == PostInternalCallWith(PostOptions)

\* A faulty PopCheck: the PoP branch also asks for the client's
\* bearer_token.
PopCheck_NeedsBearer ==
  /\ pc = "select"
  /\ bah.use_pop
  /\ IF ~bah.access_token.some \/ ~bah.pop_key.some \/ ~client.options.bearer_token.some
       THEN /\ ret' = Some(Err("Config", "access_token is required when use_pop=true"))
            /\ pc' = "returned"
            /\ bah' = bah
       ELSE /\ bah' = [bah EXCEPT !.token = bah.access_token.v,
                                  !.secret = bah.pop_key.v]
            /\ pc' = "path"
            /\ ret' = ret
  /\ UNCHANGED <<client, bsh, work, last, req, flight>>

\* A faulty PopCheck: without the per-call credentials the call goes on
\* with the client's bearer_token.
PopCheck_FallsBack ==
  /\ pc = "select"
  /\ bah.use_pop
  /\ IF bah.access_token.some /\ bah.pop_key.some
       THEN /\ bah' = [bah EXCEPT !.token = bah.access_token.v,
                                  !.secret = bah.pop_key.v]
            /\ pc' = "path"
            /\ ret' = ret
       ELSE IF client.options.bearer_token.some
       THEN /\ bah' = [bah EXCEPT
                         !.token = client.options.bearer_token.v,
                         !.headers = insert(EmptyMap, "Authorization",
                                            bearer(client.options.bearer_token.v))]
            /\ pc' = "returned"
            /\ ret' = Some(Ok(bah'.headers))
       ELSE /\ ret' = Some(Err("Config", "access_token is required when use_pop=true"))
            /\ pc' = "returned"
            /\ bah' = bah
  /\ UNCHANGED <<client, bsh, work, last, req, flight>>

\* A faulty PopCheck: the pop_key is kept in the client as its
\* signing_secret.
PopCheck_KeepsPopKey ==
  /\ pc = "select"
  /\ bah.use_pop
  /\ IF ~bah.access_token.some
       THEN /\ ret' = Some(Err("Config", "access_token is required when use_pop=true"))
            /\ pc' = "returned"
            /\ bah' = bah
            /\ client' = client
       ELSE IF ~bah.pop_key.some
       THEN /\ ret' = Some(Err("Config", "pop_key is required when use_pop=true"))
            /\ pc' = "returned"
            /\ bah' = bah
            /\ client' = client
       ELSE /\ bah' = [bah EXCEPT !.token = bah.access_token.v,
                                  !.secret = bah.pop_key.v]
            /\ pc' = "path"
            /\ ret' = ret
            /\ client' = [client EXCEPT !.options.signing_secret = bah.pop_key]
  /\ UNCHANGED <<bsh, work, last, req, flight>>

\* build_auth_headers, use_pop branch: both per-call credentials are
\* required, then the request is signed with pop_key.
PopCheck ==
  /\ pc = "select"
  /\ bah.use_pop
  /\ IF ~bah.access_token.some
       THEN /\ ret' = Some(Err("Config", "access_token is required when use_pop=true"))
            /\ pc' = "returned"
            /\ bah' = bah
       ELSE IF ~bah.pop_key.some
       THEN /\ ret' = Some(Err("Config", "pop_key is required when use_pop=true"))
            /\ pc' = "returned"
            /\ bah' = bah
       ELSE /\ bah' = [bah EXCEPT !.token = bah.access_token.v,
                                  !.secret = bah.pop_key.v]
            /\ pc' = "path"
            /\ ret' = ret
  /\ UNCHANGED <<client, bsh, work, last, req, flight>>

\* A faulty BearerCheck: an access_token or pop_key given without use_pop
\* is a Config error.
BearerCheck_RejectsStrayOverride ==
  /\ pc = "select"
  /\ ~bah.use_pop
  /\ IF bah.access_token.some \/ bah.pop_key.some
       THEN /\ ret' = Some(Err("Config", "access_token and pop_key require use_pop=true"))
            /\ pc' = "returned"
            /\ bah' = bah
       ELSE IF ~client.options.bearer_token.some
       THEN /\ ret' = Some(Err("Config", "bearer_token is required for bearer mode"))
            /\ pc' = "returned"
            /\ bah' = bah
       ELSE /\ bah' = [bah EXCEPT
                         !.token = client.options.bearer_token.v,
                         !.headers = insert(EmptyMap, "Authorization",
                                            bearer(client.options.bearer_token.v))]
            /\ pc' = "replay"
            /\ ret' = ret
  /\ UNCHANGED <<client, bsh, work, last, req, flight>>

\* build_auth_headers, bearer branch: the client's bearer_token is required
\* and the Authorization header is put into the local map.
BearerCheck ==
  /\ pc = "select"
  /\ ~bah.use_pop
  /\ IF ~client.options.bearer_token.some
       THEN /\ ret' = Some(Err("Config", "bearer_token is required for bearer mode"))
            /\ pc' = "returned"
            /\ bah' = bah
       ELSE /\ bah' = [bah EXCEPT
                         !.token = client.options.bearer_token.v,
                         !.headers = insert(EmptyMap, "Authorization",
                                            bearer(client.options.bearer_token.v))]
            /\ pc' = "replay"
            /\ ret' = ret
  /\ UNCHANGED <<client, bsh, work, last, req, flight>>

\* A faulty ReplayCheck: without a signing_secret the bearer header is
\* returned unsigned.
ReplayCheck_Unsigned ==
  /\ pc = "replay"
  /\ IF \/ client.options.replay_protection = "None"
        \/ ~client.options.signing_secret.some
       THEN /\ ret' = Some(Ok(bah.headers))
            /\ pc' = "returned"
            /\ bah' = bah
       ELSE /\ bah' = [bah EXCEPT !.secret = client.options.signing_secret.v]
            /\ pc' = "path"
            /\ ret' = ret
  /\ UNCHANGED <<client, bsh, work, last, req, flight>>

\* A faulty ReplayCheck: a configured signing_secret is used in every mode.
ReplayCheck_SignsInNoneMode ==
  /\ pc = "replay"
  /\ IF client.options.signing_secret.some
       THEN /\ bah' = [bah EXCEPT !.secret = client.options.signing_secret.v]
            /\ pc' = "path"
            /\ ret' = ret
       ELSE IF client.options.replay_protection = "None"
       THEN /\ ret' = Some(Ok(bah.headers))
            /\ pc' = "returned"
            /\ bah' = bah
       ELSE /\ ret' = Some(Err("Config",
                        "signing_secret is required when replay_protection is nonce/strict"))
            /\ pc' = "returned"
            /\ bah' = bah
  /\ UNCHANGED <<client, bsh, work, last, req, flight>>

\* A faulty ReplayCheck: the clock is read before signing_secret is looked
\* at.
ReplayCheck_ClockFirst ==
  /\ pc = "replay"
  /\ IF client.options.replay_protection = "None"
       THEN /\ ret' = Some(Ok(bah.headers))
            /\ pc' = "returned"
            /\ bah' = bah
            /\ bsh' = bsh
            /\ work' = work
       ELSE /\ \E reading \in ClockReadings :
                 bsh' = [bsh EXCEPT
                           !.timestamp = to_string(current_timestamp_ms(reading))]
            /\ work' = [work EXCEPT !.clock_reads = @ + 1]
            /\ IF ~client.options.signing_secret.some
                 THEN /\ ret' = Some(Err("Config",
                           "signing_secret is required when replay_protection is nonce/strict"))
                      /\ pc' = "returned"
                      /\ bah' = bah
                 ELSE /\ bah' = [bah EXCEPT !.secret = client.options.signing_secret.v]
                      /\ pc' = "nonce"
                      /\ ret' = ret
  /\ UNCHANGED <<client, last, req, flight>>

\* build_auth_headers, bearer branch: without replay protection the map is
\* returned as it is; otherwise signing_secret is required.
ReplayCheck ==
  /\ pc = "replay"
  /\ IF client.options.replay_protection = "None"
       THEN /\ ret' = Some(Ok(bah.headers))
            /\ pc' = "returned"
            /\ bah' = bah
       ELSE IF ~client.options.signing_secret.some
       THEN /\ ret' = Some(Err("Config",
                        "signing_secret is required when replay_protection is nonce/strict"))
            /\ pc' = "returned"
            /\ bah' = bah
       ELSE /\ bah' = [bah EXCEPT !.secret = client.options.signing_secret.v]
            /\ pc' = "path"
            /\ ret' = ret
  /\ UNCHANGED <<client, bsh, work, last, req, flight>>

\* build_signing_headers: let path = self.canonical_path(url)?
SignPath ==
  /\ pc = "path"
  /\ LET path == canonical_path(client, bah.url) IN
     IF ~path.ok
       THEN /\ ret' = Some(Err("Url", "url parse failed"))
            /\ pc' = "returned"
            /\ bsh' = bsh
       ELSE /\ bsh' = [bsh EXCEPT !.path = path.v]
            /\ pc' = "timestamp"
            /\ ret' = ret
  /\ UNCHANGED <<client, bah, work, last, req, flight>>

\* A faulty SignTimestamp: a clock that cannot be read ends the call with
\* an error.
SignTimestamp_AbortsOnClockError ==
  /\ pc = "timestamp"
  /\ \E reading \in ClockReadings :
       IF reading.ok
         THEN /\ bsh' = [bsh EXCEPT !.timestamp = to_string(reading.v)]
              /\ ret' = ret
              /\ pc' = "nonce"
         ELSE /\ bsh' = bsh
              /\ ret' = Some(Err("Crypto", "time before the epoch"))
              /\ pc' = "returned"
  /\ work' = [work EXCEPT !.clock_reads = @ + 1]
  /\ UNCHANGED <<client, bah, last, req, flight>>

\* build_signing_headers: let timestamp = current_timestamp_ms().to_string()
SignTimestamp ==
  /\ pc = "timestamp"
  /\ \E reading \in ClockReadings :
       bsh' = [bsh EXCEPT !.timestamp = to_string(current_timestamp_ms(reading))]
  /\ work' = [work EXCEPT !.clock_reads = @ + 1]
  /\ pc' = "nonce"
  /\ UNCHANGED <<client, bah, ret, last, req, flight>>

\* build_signing_headers: let nonce = random_nonce()
SignNonce ==
  /\ pc = "nonce"
  /\ \E bytes \in RandomDraws :
       bsh' = [bsh EXCEPT !.nonce = random_nonce(bytes)]
  /\ work' = [work EXCEPT !.nonce_draws = @ + 1]
  /\ pc' = "sign"
  /\ UNCHANGED <<client, bah, ret, last, req, flight>>

\* A faulty SignHeaders: the nonce of the previous signing call is appended
\* to the signed string.
SignHeaders_ChainsNonce ==
  /\ pc = "sign"
  /\ LET body_hash == sha256_hex(bah.body_string)
         canonical == canonical_string(bah.method, bsh.path, bsh.timestamp,
                                       bsh.nonce, body_hash)
         signature == sign(bah.secret,
                           canonical \o (IF last.some THEN last.v.nonce ELSE <<>>))
     IN bsh' = [bsh EXCEPT
                  !.body_hash = body_hash,
                  !.canonical = canonical,
                  !.headers = signing_headers(bsh.timestamp, bsh.nonce,
                                              signature, body_hash)]
  /\ work' = [work EXCEPT !.hmacs = @ + 1]
  /\ pc' = "merge"
  /\ UNCHANGED <<client, bah, ret, last, req, flight>>

\* A faulty SignHeaders: in Nonce mode the body hash is left out of the
\* signed string.
SignHeaders_NonceModeSkipsHash ==
  /\ pc = "sign"
  /\ LET body_hash == sha256_hex(bah.body_string)
         full      == canonical_string(bah.method, bsh.path, bsh.timestamp,
                                       bsh.nonce, body_hash)
         canonical == IF ~bah.use_pop /\ client.options.replay_protection = "Nonce"
                        THEN SubSeq(full, 1, Len(full) - Len(body_hash))
                        ELSE full
         signature == sign(bah.secret, canonical)
     IN bsh' = [bsh EXCEPT
                  !.body_hash = body_hash,
                  !.canonical = canonical,
                  !.headers = signing_headers(bsh.timestamp, bsh.nonce,
                                              signature, body_hash)]
  /\ work' = [work EXCEPT !.hmacs = @ + 1]
  /\ pc' = "merge"
  /\ UNCHANGED <<client, bah, ret, last, req, flight>>

\* A faulty SignHeaders: the X-Timestamp header is taken from a second
\* reading of the clock, not from the timestamp that was signed.
SignHeaders_SecondClockReading ==
  /\ pc = "sign"
  /\ \E reading \in ClockReadings :
       LET body_hash == sha256_hex(bah.body_string)
           canonical == canonical_string(bah.method, bsh.path, bsh.timestamp,
                                         bsh.nonce, body_hash)
           signature == sign(bah.secret, canonical)
       IN bsh' = [bsh EXCEPT
                    !.body_hash = body_hash,
                    !.canonical = canonical,
                    !.headers = signing_headers(to_string(current_timestamp_ms(reading)),
                                                bsh.nonce, signature, body_hash)]
  /\ work' = [work EXCEPT !.hmacs = @ + 1]
  /\ pc' = "merge"
  /\ UNCHANGED <<client, bah, ret, last, req, flight>>

\* build_signing_headers: the body hash, the canonical string, its HMAC and
\* the four headers, or the Crypto error when the key is refused.
SignHeaders ==
  /\ pc = "sign"
  /\ LET body_hash == sha256_hex(bah.body_string)
         canonical == canonical_string(bah.method, bsh.path, bsh.timestamp,
                                       bsh.nonce, body_hash)
         mac       == HmacSha256_new_from_slice(as_bytes(bah.secret))
         signature == sign(bah.secret, canonical)
     IN IF ~mac.ok
          THEN /\ bsh' = [bsh EXCEPT !.body_hash = body_hash, !.canonical = canonical]
               /\ ret' = Some(Err("Crypto", "invalid signing secret"))
               /\ work' = work
               /\ pc' = "returned"
          ELSE /\ bsh' = [bsh EXCEPT
                            !.body_hash = body_hash,
                            !.canonical = canonical,
                            !.headers = signing_headers(bsh.timestamp, bsh.nonce,
                                                        signature, body_hash)]
               /\ ret' = ret
               /\ work' = [work EXCEPT !.hmacs = @ + 1]
               /\ pc' = "merge"
  /\ UNCHANGED <<client, bah, last, req, flight>>

\* A faulty merged_headers: X-Body-Sha256 stays in the map in Nonce mode.
merged_headers_KeepsBodyHash(self, frame, signing) ==
  IF frame.use_pop
    THEN insert(signing, "Authorization", bearer(frame.token))
    ELSE extend(frame.headers, signing)

\* The header map build_auth_headers returns after signing, on the PoP
\* branch (Authorization added to the signing headers) and on the bearer
\* branch (X-Body-Sha256 dropped in Nonce mode, the rest added to the map).
merged_headers(self, frame, signing) ==
  IF frame.use_pop
    THEN insert(signing, "Authorization", bearer(frame.token))
    ELSE extend(frame.headers,
                IF self.options.replay_protection = "Nonce"
                  THEN remove(signing, "X-Body-Sha256")
                  ELSE signing)

\* The record kept of a call that signed.
signed_call(self, frame, signing, headers) ==
  [base_path |-> self.base_path,
   mode      |-> IF frame.use_pop THEN "PoP" ELSE self.options.replay_protection,
   method    |-> frame.method,
   url       |-> frame.url,
   body      |-> frame.body_string,
   token     |-> frame.token,
   secret    |-> frame.secret,
   path      |-> signing.path,
   timestamp |-> signing.timestamp,
   nonce     |-> signing.nonce,
   body_hash |-> signing.body_hash,
   canonical |-> signing.canonical,
   headers   |-> headers]

\* build_auth_headers after build_signing_headers has returned.
MergeHeaders ==
  /\ pc = "merge"
  /\ ret' = Some(Ok(merged_headers(client, bah, bsh.headers)))
  /\ pc' = "returned"
  /\ UNCHANGED <<client, bah, bsh, work, last, req, flight>>

\* post_internal takes the result of build_auth_headers; the call is over.
PostInternalReturn ==
  /\ pc \in {"returned", "done"}
  /\ pc' = "idle"
  /\ bah' = NoFrame
  /\ bsh' = NoSigning
  /\ ret' = NoneOpt
  /\ work' = NoWork
  /\ UNCHANGED <<client, last, req, flight>>

Next ==
  \/ NewClient
  \/ PostInternalCall
  \/ PopCheck
  \/ BearerCheck
  \/ ReplayCheck
  \/ SignPath
  \/ SignTimestamp
  \/ SignNonce
  \/ SignHeaders
  \/ MergeHeaders
  \/ PostInternalReturn

Spec == Init /\ [][Next]_vars

(***************************************************************************)
(* Pairs of signing calls                                                  *)
(*                                                                         *)
(* The properties that compare two calls are checked on the calls that     *)
(* sign: clients that hold bearer_token and signing_secret and protect     *)
(* against replay, and calls that either use PoP with both credentials or  *)
(* carry none.  The steps of a call are those of Spec; when a call is over *)
(* a record of it is kept in last for the next call to be compared with.   *)
(***************************************************************************)

SigningClientOptions ==
  {o \in ClientOptions :
     /\ o.bearer_token.some
     /\ o.signing_secret.some
     /\ o.replay_protection # "None"}

SigningPostOptions ==
  {o \in PostOptions :
     /\ o.use_pop => o.access_token.some /\ o.pop_key.some
     /\ ~o.use_pop => ~o.access_token.some /\ ~o.pop_key.some}

InitPair ==
  /\ \E options \in SigningClientOptions : new(options).ok /\ client = new(options).v
  /\ pc = "idle"
  /\ bah = NoFrame
  /\ bsh = NoSigning
  /\ ret = NoneOpt
  /\ work = NoWork
  /\ last = NoneOpt
  /\ req = NoRequest
  /\ flight = NoFlight

NewSigningClient == NewClientFrom(SigningClientOptions)

SigningCall == PostInternalCallWith(SigningPostOptions)

\* PostInternalReturn, keeping the record of a call that signed.
ReturnAndRecord ==
  /\ pc \in {"returned", "done"}
  /\ pc' = "idle"
  /\ last' = IF ret.v.ok /\ work.hmacs > 0
               THEN Some(signed_call(client, bah, bsh, ret.v.v))
               ELSE last
  /\ bah' = NoFrame
  /\ bsh' = NoSigning
  /\ ret' = NoneOpt
  /\ work' = NoWork
  /\ UNCHANGED <<client, req, flight>>

NextPair ==
  \/ NewSigningClient
  \/ SigningCall
  \/ PopCheck
  \/ BearerCheck
  \/ ReplayCheck
  \/ SignPath
  \/ SignTimestamp
  \/ SignNonce
  \/ SignHeaders
  \/ MergeHeaders
  \/ ReturnAndRecord

SpecPair == InitPair /\ [][NextPair]_vars

(***************************************************************************)
(* Properties of build_auth_headers                                        *)
(***************************************************************************)

\* build_auth_headers has returned to post_internal.
Returned == pc = "returned"

\* The five header names of a signed request.
SignedHeaderNames ==
  {"Authorization", "X-Timestamp", "X-Nonce", "X-Signature", "X-Body-Sha256"}

\* C1: PoP takes precedence over the configured mode.  Whatever the client's
\* replay_protection, bearer_token and signing_secret, a call with use_pop
\* and both access_token and pop_key returns Ok with exactly the five
\* headers; Authorization is "Bearer <access_token>", the signature is the
\* HMAC of the canonical string under pop_key, and no value comes from the
\* client's own credentials.
C1_PopTakesPrecedence ==
  (Returned /\ bah.use_pop /\ bah.access_token.some /\ bah.pop_key.some) =>
    /\ ret.v.ok
    /\ DOMAIN ret.v.v = SignedHeaderNames
    /\ ret.v.v["Authorization"] = BearerPrefix \o bah.access_token.v
    /\ ret.v.v["X-Signature"] =
         hex_lower(HmacSha256(as_bytes(bah.pop_key.v), as_bytes(bsh.canonical)))
    /\ ret.v.v["X-Timestamp"] = bsh.timestamp
    /\ ret.v.v["X-Nonce"] = bsh.nonce
    /\ ret.v.v["X-Body-Sha256"] = bsh.body_hash
    /\ work = [clock_reads |-> 1, nonce_draws |-> 1, hmacs |-> 1]

\* C1 witness: a PoP call has succeeded on a client in mode None that has
\* neither bearer_token nor signing_secret.
C1_Witness ==
  /\ Returned /\ bah.use_pop /\ bah.access_token.some /\ bah.pop_key.some
  /\ client.options.replay_protection = "None"
  /\ ~client.options.bearer_token.some
  /\ ~client.options.signing_secret.some
  /\ ret.v.ok

\* C2: a successful call without PoP returns X-Body-Sha256 in Strict mode,
\* never in Nonce mode, and in both modes Authorization, X-Timestamp,
\* X-Nonce and X-Signature.
C2_StrictHasBodyHashNonceHasNot ==
  (Returned /\ ~bah.use_pop /\ ret.v.ok) =>
    /\ client.options.replay_protection = "Strict" =>
         "X-Body-Sha256" \in DOMAIN ret.v.v
    /\ client.options.replay_protection = "Nonce" =>
         "X-Body-Sha256" \notin DOMAIN ret.v.v
    /\ client.options.replay_protection \in {"Strict", "Nonce"} =>
         {"Authorization", "X-Timestamp", "X-Nonce", "X-Signature"}
           \subseteq DOMAIN ret.v.v

\* C2 witness: a Nonce-mode call has succeeded and carries a signature.
C2_Witness ==
  /\ Returned /\ ~bah.use_pop /\ ret.v.ok
  /\ client.options.replay_protection = "Nonce"
  /\ "X-Signature" \in DOMAIN ret.v.v

\* C3: without PoP and in mode Strict or Nonce, a missing bearer_token or
\* signing_secret makes the call fail with a Config error, the one about
\* bearer_token when both are missing; an unsigned map is never returned.
C3_MissingCredentialIsConfigError ==
  (/\ Returned /\ ~bah.use_pop
   /\ client.options.replay_protection \in {"Strict", "Nonce"}
   /\ (~client.options.bearer_token.some \/ ~client.options.signing_secret.some)) =>
    /\ ~ret.v.ok
    /\ ret.v.err = "Config"
    /\ ~client.options.bearer_token.some =>
         ret.v.msg = "bearer_token is required for bearer mode"
    /\ client.options.bearer_token.some =>
         ret.v.msg = "signing_secret is required when replay_protection is nonce/strict"

\* C3 witness: a Strict-mode call on a client with a bearer_token and no
\* signing_secret has failed.
C3_Witness ==
  /\ Returned /\ ~bah.use_pop
  /\ client.options.replay_protection = "Strict"
  /\ client.options.bearer_token.some
  /\ ~client.options.signing_secret.some
  /\ ~ret.v.ok

\* C4: without PoP and in mode None, the call fails with a Config error when
\* bearer_token is missing and otherwise returns the single header
\* Authorization = "Bearer <bearer_token>"; nothing is signed (no clock
\* read, no nonce, no HMAC), also when a signing_secret is configured.
C4_NoneModeOnlyBearer ==
  (Returned /\ ~bah.use_pop /\ client.options.replay_protection = "None") =>
    /\ ~client.options.bearer_token.some =>
         ~ret.v.ok /\ ret.v.err = "Config"
    /\ client.options.bearer_token.some =>
         /\ ret.v.ok
         /\ DOMAIN ret.v.v = {"Authorization"}
         /\ ret.v.v["Authorization"] = BearerPrefix \o client.options.bearer_token.v
    /\ work = NoWork
    /\ bsh = NoSigning

\* C4 witness: a mode-None call has succeeded on a client that holds a
\* signing_secret.
C4_Witness ==
  /\ Returned /\ ~bah.use_pop /\ client.options.replay_protection = "None"
  /\ client.options.signing_secret.some
  /\ ret.v.ok

\* C5: a call with use_pop that lacks access_token or pop_key fails with a
\* Config error in every mode, also on a client that holds bearer_token and
\* signing_secret.
C5_PopRequiresBothCredentials ==
  (Returned /\ bah.use_pop /\ (~bah.access_token.some \/ ~bah.pop_key.some)) =>
    /\ ~ret.v.ok
    /\ ret.v.err = "Config"
    /\ work = NoWork

\* C5 witness: a PoP call without pop_key has failed on a Strict-mode client
\* with bearer_token and signing_secret.
C5_Witness ==
  /\ Returned /\ bah.use_pop /\ bah.access_token.some /\ ~bah.pop_key.some
  /\ client.options.replay_protection = "Strict"
  /\ client.options.bearer_token.some
  /\ client.options.signing_secret.some
  /\ ~ret.v.ok

\* C6: header construction is atomic.  A failed call hands the caller an
\* error and no header map, also when the local map already held
\* Authorization, and a Config error is raised before the clock is read, a
\* nonce drawn or an HMAC computed.
C6_AtomicConstruction ==
  (Returned /\ ~ret.v.ok) =>
    /\ DOMAIN ret.v = {"ok", "err", "msg"}
    /\ ret.v.err = "Config" => work = NoWork /\ bsh = NoSigning

\* C6 witness: a call has failed after Authorization was put into the
\* local map.
C6_Witness ==
  /\ Returned /\ ~ret.v.ok
  /\ "Authorization" \in DOMAIN bah.headers

(***************************************************************************)
(* Properties of build_signing_headers                                     *)
(***************************************************************************)

\* The call in progress has signed: build_signing_headers has returned.
HasSigned == work.hmacs > 0

\* The five signing fields of a call, in the order of the format string.
SigningFields(method, path, timestamp, nonce, body_hash) ==
  <<to_uppercase(method), path, timestamp, nonce, body_hash>>

\* The signing fields of the call in progress.
CurrentFields ==
  SigningFields(bah.method, bsh.path, bsh.timestamp, bsh.nonce, bsh.body_hash)

\* The signing fields of the previous call that signed.
LastFields ==
  SigningFields(last.v.method, last.v.path, last.v.timestamp, last.v.nonce,
                last.v.body_hash)

\* C7: the string fed to the HMAC is the uppercased method, the canonical
\* path, the decimal timestamp, the nonce and the hex body hash, in that
\* order, separated by single newlines, with no newline before or after.
C7_CanonicalStringFormat ==
  HasSigned =>
    /\ Split(bsh.canonical, NL) = CurrentFields
    /\ bsh.canonical =
         to_uppercase(bah.method) \o <<NL>> \o canonical_path(client, bah.url).v
           \o <<NL>> \o bsh.timestamp \o <<NL>> \o bsh.nonce
           \o <<NL>> \o sha256_hex(bah.body_string)
    /\ \A i \in 1..Len(bsh.timestamp) :
         bsh.timestamp[i] \in {"0", "1", "2", "3", "4", "5", "6", "7", "8", "9"}
    /\ Head(bsh.canonical) # NL
    /\ bsh.canonical[Len(bsh.canonical)] # NL
    /\ bsh.headers["X-Signature"] =
         hex_lower(HmacSha256(as_bytes(bah.secret), as_bytes(bsh.canonical)))

\* C7 witness: a call has signed a canonical string with a timestamp of
\* several digits.
C7_Witness ==
  /\ HasSigned
  /\ Len(bsh.timestamp) > 1
  /\ Len(Split(bsh.canonical, NL)) = 5

\* C8: the canonical string is injective in its fields.  Two signing calls
\* whose field tuples differ have different canonical strings and, under the
\* same secret, different signatures.
C8_CanonicalStringInjective ==
  (last.some /\ HasSigned /\ LastFields # CurrentFields) =>
    /\ last.v.canonical # bsh.canonical
    /\ last.v.secret = bah.secret =>
         last.v.headers["X-Signature"] # bsh.headers["X-Signature"]

\* C8 witness: two calls with the same request, secret and timestamp and
\* different nonces have signed.
C8_Witness ==
  /\ last.some /\ HasSigned
  /\ last.v.method = bah.method /\ last.v.url = bah.url
  /\ last.v.body = bah.body_string /\ last.v.secret = bah.secret
  /\ last.v.timestamp = bsh.timestamp
  /\ last.v.nonce # bsh.nonce
  /\ last.v.headers["X-Signature"] # bsh.headers["X-Signature"]

\* C9: signing is deterministic.  Two runs of build_signing_headers on
\* clients of the same base path, with the same method, URL, body and
\* secret, the same clock value and the same nonce, return the same
\* headers, whatever was called before.
C9_SigningDeterministic ==
  (/\ last.some /\ HasSigned
   /\ last.v.base_path = client.base_path
   /\ last.v.method = bah.method /\ last.v.url = bah.url
   /\ last.v.body = bah.body_string /\ last.v.secret = bah.secret
   /\ last.v.timestamp = bsh.timestamp /\ last.v.nonce = bsh.nonce) =>
    /\ last.v.headers["X-Signature"] = bsh.headers["X-Signature"]
    /\ last.v.headers["X-Timestamp"] = bsh.headers["X-Timestamp"]
    /\ last.v.headers["X-Nonce"] = bsh.headers["X-Nonce"]
    /\ last.v.body_hash = bsh.headers["X-Body-Sha256"]
    /\ DOMAIN bsh.headers =
         {"X-Timestamp", "X-Nonce", "X-Signature", "X-Body-Sha256"}

\* C9 witness: a run has signed with the inputs, clock value and nonce of
\* the previous signing run.
C9_Witness ==
  /\ last.some /\ HasSigned
  /\ last.v.base_path = client.base_path
  /\ last.v.method = bah.method /\ last.v.url = bah.url
  /\ last.v.body = bah.body_string /\ last.v.secret = bah.secret
  /\ last.v.timestamp = bsh.timestamp /\ last.v.nonce = bsh.nonce

\* The successful call in progress, as a record like the one kept in last.
CurrentCall == signed_call(client, bah, bsh, ret.v.v)

\* n is a Nonce-mode call and s a Strict-mode call with the same method,
\* URL, body, credentials, timestamp and nonce.
NonceStrictPair(n, s) ==
  /\ n.mode = "Nonce" /\ s.mode = "Strict"
  /\ n.base_path = s.base_path
  /\ n.method = s.method /\ n.url = s.url /\ n.body = s.body
  /\ n.token = s.token /\ n.secret = s.secret
  /\ n.timestamp = s.timestamp /\ n.nonce = s.nonce

\* What C10 says of such a pair.
NonceIsStrictWithoutBodyHash(n, s) ==
  /\ n.headers = [h \in DOMAIN s.headers \ {"X-Body-Sha256"} |-> s.headers[h]]
  /\ "X-Body-Sha256" \in DOMAIN s.headers
  /\ Split(n.canonical, NL)[5] = sha256_hex(n.body)
  /\ n.headers["X-Signature"] =
       hex_lower(HmacSha256(as_bytes(n.secret), as_bytes(n.canonical)))

\* C10: for the same method, URL, body, credentials, timestamp and nonce,
\* the Nonce-mode header map is the Strict-mode map without X-Body-Sha256,
\* and the Nonce-mode signature covers a canonical string that holds the
\* body hash.
C10_NonceIsStrictMinusBodyHash ==
  (last.some /\ Returned /\ ret.v.ok /\ HasSigned) =>
    /\ NonceStrictPair(CurrentCall, last.v) =>
         NonceIsStrictWithoutBodyHash(CurrentCall, last.v)
    /\ NonceStrictPair(last.v, CurrentCall) =>
         NonceIsStrictWithoutBodyHash(last.v, CurrentCall)

\* C10 witness: a Nonce-mode call has returned with the inputs, timestamp
\* and nonce of the previous, Strict-mode call.
C10_Witness ==
  /\ last.some /\ Returned /\ ret.v.ok /\ HasSigned
  /\ NonceStrictPair(CurrentCall, last.v)

(***************************************************************************)
(* canonical_path on its own: SpecPath applies it to URLs of a bounded set *)
(***************************************************************************)

MaxPathSegments == 2

\* The segments URL paths are made of: a base path segment, a segment that
\* extends it by one character, and an endpoint segment.
PathSegments == {<<"v", "1">>, <<"v", "1", "0">>, <<"k">>}

\* The paths of exactly n segments, each segment after a "/".
RECURSIVE PathsOf(_)
PathsOf(n) ==
  IF n = 0 THEN {<<>>}
  ELSE {p \o <<"/">> \o s : p \in PathsOf(n - 1), s \in PathSegments}

\* Strings Url::parse rejects: empty, no scheme, no host, a bare path.
UnparseableUrls == {<<>>, <<"x">>, <<"h", "t", "t", "p", ":", "/", "/">>, <<"/", "v", "1", "/", "k">>}

\* The url argument of canonical_path: paths of up to MaxPathSegments
\* segments on one host, with and without a trailing "/", and the strings
\* that do not parse.
PathUrls ==
  {<<"h", "t", "t", "p", ":", "/", "/", "h">> \o p \o t :
     p \in UNION {PathsOf(n) : n \in 0..MaxPathSegments}, t \in {<<>>, <<"/">>}}
  \cup UnparseableUrls

\* Base URLs giving the base paths "", "/v1", "/v1/k", "/v10" and, for the
\* blank one, the default "/api/v1".
PathBaseUrls ==
  {<<"h", "t", "t", "p", ":", "/", "/", "h">>, <<"h", "t", "t", "p", ":", "/", "/", "h", "/", "v", "1">>, <<"h", "t", "t", "p", ":", "/", "/", "h", "/", "v", "1", "/">>, <<"h", "t", "t", "p", ":", "/", "/", "h", "/", "v", "1", "/", "k">>,
   <<"h", "t", "t", "p", ":", "/", "/", "h", "/", "v", "1", "0">>, <<>>}

PathClientOptions ==
  [base_url : PathBaseUrls, bearer_token : {NoneOpt},
   signing_secret : {NoneOpt}, service_slug : {NoneOpt},
   replay_protection : {"None"}]

InitPath ==
  /\ \E options \in PathClientOptions : new(options).ok /\ client = new(options).v
  /\ pc = "idle"
  /\ bah = NoFrame
  /\ bsh = NoSigning
  /\ ret = NoneOpt
  /\ work = NoWork
  /\ last = NoneOpt
  /\ req = NoRequest
  /\ flight = NoFlight

NewPathClient == NewClientFrom(PathClientOptions)

\* canonical_path(url) is called and returns.
ResolvePath ==
  /\ pc = "idle"
  /\ \E url \in PathUrls :
       /\ bah' = [NoFrame EXCEPT !.url = url]
       /\ ret' = Some(canonical_path(client, url))
  /\ pc' = "resolved"
  /\ UNCHANGED <<client, bsh, work, last, req, flight>>

\* The caller drops the result.
PathReturn ==
  /\ pc = "resolved"
  /\ pc' = "idle"
  /\ bah' = NoFrame
  /\ ret' = NoneOpt
  /\ UNCHANGED <<client, bsh, work, last, req, flight>>

NextPath ==
  \/ NewPathClient
  \/ ResolvePath
  \/ PathReturn

SpecPath == InitPath /\ [][NextPath]_vars

Resolved == pc = "resolved"

\* The path of the URL canonical_path was given (the URL parses).
TargetPath == Url_parse(bah.url).v.path

\* C11: for every parseable URL with path p and base path b, canonical_path
\* returns p unchanged when b is empty or p does not start with b, and
\* otherwise p with the prefix b removed ("/" when nothing remains); in
\* every case the result starts with "/".
C11_CanonicalPathContract ==
  (Resolved /\ Url_parse(bah.url).ok) =>
    LET p == TargetPath
        b == client.base_path
    IN /\ ret.v.ok
       /\ IF b = <<>> \/ ~starts_with(p, b)
            THEN ret.v.v = p
            ELSE ret.v.v = (IF Len(p) = Len(b) THEN <<"/">>
                            ELSE SubSeq(p, Len(b) + 1, Len(p)))
       /\ ret.v.v # <<>> /\ ret.v.v[1] = "/"

WholeSegmentPrefix(p, b) ==
  /\ starts_with(p, b)
  /\ Len(p) = Len(b) \/ p[Len(b) + 1] = "/"

\* C27: the base path is stripped only when it is a whole-segment prefix of
\* the URL path; a path that shares its first characters with the base path
\* without a segment boundary after them is a prefix mismatch and is
\* returned unmodified.
C27_StripsWholeSegmentsOnly ==
  (Resolved /\ Url_parse(bah.url).ok /\ client.base_path # <<>>) =>
    /\ ret.v.ok
    /\ ret.v.v # TargetPath => WholeSegmentPrefix(TargetPath, client.base_path)
    /\ (starts_with(TargetPath, client.base_path)
          /\ ~WholeSegmentPrefix(TargetPath, client.base_path)) => ret.v.v = TargetPath

(***************************************************************************)
(* The public calls and post_internal: from the input to the request sent  *)
(***************************************************************************)

\* char::to_ascii_lowercase: A..Z map to a..z.
LowerChar(c) ==
  IF c # NL /\ Ascii(c) >= 65 /\ Ascii(c) <= 90
    THEN AsciiTable[Ascii(c) + 32 - 31]
    ELSE c

to_lowercase(s) == [i \in 1..Len(s) |-> LowerChar(s[i])]

\* The bytes a header name may hold (http's HEADER_CHARS): letters, digits
\* and ! # $ % & ' * + - . ^ _ <grave> | ~
HeaderNameBytes ==
  (48..57) \cup (65..90) \cup (97..122)
  \cup {33, 35, 36, 37, 38, 39, 42, 43, 45, 46, 94, 95, 96, 124, 126}

\* The text of the header names in use (String::as_bytes of a map key).
HeaderNameText ==
  ("Authorization" :> <<"A", "u", "t", "h", "o", "r", "i", "z", "a", "t", "i", "o", "n">>)
  @@ ("X-Timestamp" :> <<"X", "-", "T", "i", "m", "e", "s", "t", "a", "m", "p">>)
  @@ ("X-Nonce" :> <<"X", "-", "N", "o", "n", "c", "e">>)
  @@ ("X-Signature" :> <<"X", "-", "S", "i", "g", "n", "a", "t", "u", "r", "e">>)
  @@ ("X-Body-Sha256" :> <<"X", "-", "B", "o", "d", "y", "-", "S", "h", "a", "2", "5", "6">>)
  @@ ("X-HWID" :> <<"X", "-", "H", "W", "I", "D">>)
  @@ ("authorization" :> <<"a", "u", "t", "h", "o", "r", "i", "z", "a", "t", "i", "o", "n">>)
  @@ ("X-Trace" :> <<"X", "-", "T", "r", "a", "c", "e">>)
  @@ ("bad name" :> <<"b", "a", "d", " ", "n", "a", "m", "e">>)
  @@ ("Cookie" :> <<"C", "o", "o", "k", "i", "e">>)
  @@ ("cookie" :> <<"c", "o", "o", "k", "i", "e">>)

\* HeaderName::from_bytes: a non-empty name of header-name bytes, which it
\* lower-cases; anything else is an error.
HeaderName_from_bytes(key) ==
  IF key # <<>> /\ \A i \in 1..Len(key) : Ascii(key[i]) \in HeaderNameBytes
    THEN Ok(to_lowercase(key))
    ELSE Err("InvalidHeaderName", "invalid HTTP header name")

\* HeaderValue::from_str: visible ASCII (and the tab) only.
HeaderValue_from_str(value) ==
  IF \A i \in 1..Len(value) : Ascii(value[i]) \in (32..126) \cup {9}
    THEN Ok(value)
    ELSE Err("InvalidHeaderValue", "failed to parse header value")

\* CONTENT_TYPE and the value post_internal gives it.
CONTENT_TYPE == <<"c", "o", "n", "t", "e", "n", "t", "-", "t", "y", "p", "e">>
ApplicationJson == <<"a", "p", "p", "l", "i", "c", "a", "t", "i", "o", "n", "/", "j", "s", "o", "n">>

\* The loops of post_internal over auth_headers and over extra_headers: each
\* entry is converted and inserted; the first entry that does not convert
\* ends the call with a Config error.
insert_headers(headers, entries, what) ==
  LET name(k) == HeaderName_from_bytes(HeaderNameText[k]) IN
  IF \E k \in DOMAIN entries : ~name(k).ok
    THEN Err("Config", "invalid " \o what \o " header name")
  ELSE IF \E k \in DOMAIN entries : ~HeaderValue_from_str(entries[k]).ok
    THEN Err("Config", "invalid " \o what \o " header value")
  ELSE Ok([n \in DOMAIN headers \cup {name(k).v : k \in DOMAIN entries} |->
             IF \E k \in DOMAIN entries : name(k).v = n
               THEN entries[CHOOSE k \in DOMAIN entries : name(k).v = n]
               ELSE headers[n]])

\* One member of a json! object, when the value is there.
Member(name, opt) == IF opt.some THEN << <<name, opt.v>> >> ELSE <<>>

\* What a public call hands to post_internal.
PostArgs(endpoint, payload, options) ==
  [endpoint |-> endpoint, payload |-> payload, options |-> options]

\* The override fields of an input, as GenericPostOptions.
OverrideOf(input, extra_headers) ==
  [use_pop |-> input.use_pop, access_token |-> input.access_token,
   pop_key |-> input.pop_key, extra_headers |-> extra_headers]

\* NebulAuthClient::verify_key (serde_json keeps the members of an object
\* sorted by name).
verify_key(self, input) ==
  Ok(PostArgs(<<"/", "k", "e", "y", "s", "/", "v", "e", "r", "i", "f", "y">>,
              Member(<<"k", "e", "y">>, Some(input.key)) \o Member(<<"r", "e", "q", "u", "e", "s", "t", "I", "d">>, input.request_id),
              OverrideOf(input, IF input.hwid.some
                                  THEN insert(EmptyMap, "X-HWID", input.hwid.v)
                                  ELSE EmptyMap)))

\* NebulAuthClient::auth_verify
auth_verify(self, input) ==
  Ok(PostArgs(<<"/", "a", "u", "t", "h", "/", "v", "e", "r", "i", "f", "y">>,
              Member(<<"h", "w", "i", "d">>, input.hwid) \o Member(<<"k", "e", "y">>, Some(input.key))
                \o Member(<<"r", "e", "q", "u", "e", "s", "t", "I", "d">>, input.request_id),
              DefaultPostOptions))

\* A faulty redeem_key: the client's service_slug comes first.
redeem_key_ClientSlugFirst(self, input) ==
  LET slug == IF self.options.service_slug.some THEN self.options.service_slug
              ELSE input.service_slug
  IN IF ~slug.some
       THEN Err("Config", "service_slug is required either in client options or redeem_key input")
       ELSE Ok(PostArgs(<<"/", "k", "e", "y", "s", "/", "r", "e", "d", "e", "e", "m">>,
                        Member(<<"d", "i", "s", "c", "o", "r", "d", "I", "d">>, Some(input.discord_id))
                          \o Member(<<"k", "e", "y">>, Some(input.key))
                          \o Member(<<"r", "e", "q", "u", "e", "s", "t", "I", "d">>, input.request_id)
                          \o Member(<<"s", "e", "r", "v", "i", "c", "e", "S", "l", "u", "g">>, slug),
                        OverrideOf(input, EmptyMap)))

\* NebulAuthClient::redeem_key
redeem_key(self, input) ==
  LET slug == IF input.service_slug.some THEN input.service_slug
              ELSE self.options.service_slug
  IN IF ~slug.some
       THEN Err("Config", "service_slug is required either in client options or redeem_key input")
       ELSE Ok(PostArgs(<<"/", "k", "e", "y", "s", "/", "r", "e", "d", "e", "e", "m">>,
                        Member(<<"d", "i", "s", "c", "o", "r", "d", "I", "d">>, Some(input.discord_id))
                          \o Member(<<"k", "e", "y">>, Some(input.key))
                          \o Member(<<"r", "e", "q", "u", "e", "s", "t", "I", "d">>, input.request_id)
                          \o Member(<<"s", "e", "r", "v", "i", "c", "e", "S", "l", "u", "g">>, slug),
                        OverrideOf(input, EmptyMap)))

\* A faulty reset_hwid: both identifiers are required.
reset_hwid_RequiresBoth(self, input) ==
  IF ~input.discord_id.some \/ ~input.key.some
    THEN Err("Config", "reset_hwid requires at least discord_id or key")
    ELSE Ok(PostArgs(<<"/", "k", "e", "y", "s", "/", "r", "e", "s", "e", "t", "-", "h", "w", "i", "d">>,
                     Member(<<"d", "i", "s", "c", "o", "r", "d", "I", "d">>, input.discord_id)
                       \o Member(<<"k", "e", "y">>, input.key)
                       \o Member(<<"r", "e", "q", "u", "e", "s", "t", "I", "d">>, input.request_id),
                     OverrideOf(input, EmptyMap)))

\* NebulAuthClient::reset_hwid
reset_hwid(self, input) ==
  IF ~input.discord_id.some /\ ~input.key.some
    THEN Err("Config", "reset_hwid requires at least discord_id or key")
    ELSE Ok(PostArgs(<<"/", "k", "e", "y", "s", "/", "r", "e", "s", "e", "t", "-", "h", "w", "i", "d">>,
                     Member(<<"d", "i", "s", "c", "o", "r", "d", "I", "d">>, input.discord_id)
                       \o Member(<<"k", "e", "y">>, input.key)
                       \o Member(<<"r", "e", "q", "u", "e", "s", "t", "I", "d">>, input.request_id),
                     OverrideOf(input, EmptyMap)))

\* NebulAuthClient::post
post(self, endpoint, payload, options) == Ok(PostArgs(endpoint, payload, options))

\* The inputs of SpecPost.
ServiceSlugs == {NoneOpt, Some(<<"s">>)}
RequestIds == {NoneOpt, Some(<<"r">>)}
Hwids == {NoneOpt, Some(<<"w">>)}
DiscordIds == {NoneOpt, Some(<<"d">>)}
Keys == {NoneOpt, Some(<<"a">>)}

\* The clients of SpecPost: in mode None with a bearer_token (with and
\* without a service_slug) and without one; in Strict mode with both
\* credentials and a service_slug, and with the bearer_token alone; in
\* Nonce mode with both credentials.
PostClientOptions ==
  {o \in [base_url : BaseUrls, bearer_token : BearerTokens,
          signing_secret : SigningSecrets, service_slug : ServiceSlugs,
          replay_protection : ReplayProtectionMode] :
     \/ /\ o.replay_protection = "None"
        /\ ~o.signing_secret.some
        /\ o.service_slug.some => o.bearer_token.some
     \/ /\ o.replay_protection = "Strict"
        /\ o.bearer_token.some
        /\ o.signing_secret.some <=> o.service_slug.some
     \/ /\ o.replay_protection = "Nonce"
        /\ o.bearer_token.some /\ o.signing_secret.some
        /\ ~o.service_slug.some}

\* The override fields of a call: none, complete, use_pop without its key,
\* a token without use_pop, and a complete one whose token holds a line
\* feed (no header value).
Overrides ==
  {[use_pop |-> FALSE, access_token |-> NoneOpt, pop_key |-> NoneOpt],
   [use_pop |-> TRUE, access_token |-> Some(<<"t", "a">>), pop_key |-> Some(<<"k", "p">>)],
   [use_pop |-> TRUE, access_token |-> Some(<<"t", "a">>), pop_key |-> NoneOpt],
   [use_pop |-> FALSE, access_token |-> Some(<<"t", "a">>), pop_key |-> NoneOpt],
   [use_pop |-> TRUE, access_token |-> Some(<<"t", NL>>), pop_key |-> Some(<<"k", "p">>)]}

NoOverride == [use_pop |-> FALSE, access_token |-> NoneOpt, pop_key |-> NoneOpt]
PopOverride == [use_pop |-> TRUE, access_token |-> Some(<<"t", "a">>), pop_key |-> Some(<<"k", "p">>)]

\* extra_headers of a post call: none, a header of its own, two that bear
\* the name of an auth header, one whose value and one whose name is no
\* header text.
ExtraHeaderMaps ==
  {EmptyMap,
   insert(EmptyMap, "X-HWID", <<"w">>),
   insert(EmptyMap, "authorization", <<"B", "e", "a", "r", "e", "r", " ", "x">>),
   insert(EmptyMap, "X-Signature", <<"0", "0">>),
   insert(EmptyMap, "X-Trace", <<"a", NL, "b">>),
   insert(EmptyMap, "bad name", <<"v">>)}

VerifyKeyInputs ==
  {[key |-> <<"a">>, request_id |-> q.r, hwid |-> q.h, use_pop |-> q.o.use_pop,
    access_token |-> q.o.access_token, pop_key |-> q.o.pop_key] :
     q \in {q \in [r : RequestIds, h : Hwids, o : Overrides] : q.r.some <=> q.h.some}}

AuthVerifyInputs ==
  [key : {<<"a">>}, hwid : Hwids, request_id : RequestIds]

RedeemKeyInputs ==
  {[key |-> <<"a">>, discord_id |-> <<"d">>, service_slug |-> s, request_id |-> r,
    use_pop |-> o.use_pop, access_token |-> o.access_token, pop_key |-> o.pop_key] :
     s \in {NoneOpt, Some(<<"i">>)}, r \in RequestIds, o \in {NoOverride, PopOverride}}

ResetHwidInputs ==
  {[discord_id |-> d, key |-> k, request_id |-> r,
    use_pop |-> o.use_pop, access_token |-> o.access_token, pop_key |-> o.pop_key] :
     d \in DiscordIds, k \in Keys, r \in RequestIds, o \in {NoOverride, PopOverride}}

PostInputs ==
  {[endpoint |-> q.e, payload |-> q.p,
    options |-> [use_pop |-> q.o.use_pop, access_token |-> q.o.access_token,
                 pop_key |-> q.o.pop_key, extra_headers |-> q.x]] :
     q \in {q \in [e : Endpoints, p : Payloads, o : {NoOverride, PopOverride},
                   x : ExtraHeaderMaps] :
              q.o.use_pop => DOMAIN q.x \subseteq {"authorization"}}}

\* What the server answers: a status, headers (values as bytes) and a body.
Responses ==
  {[status |-> 200, headers |-> insert(EmptyMap, <<"x", "-", "r">>, <<49>>),
    text |-> serde_json_to_string(<< <<<<"v", "a", "l", "i", "d">>, <<"y">>>> >>)],
   [status |-> 401, headers |-> insert(EmptyMap, <<"x", "-", "r">>, <<255>>), text |-> <<"d", "e", "n", "i", "e", "d">>],
   [status |-> 204, headers |-> EmptyMap, text |-> <<" ">>],
   [status |-> 300, headers |-> EmptyMap, text |-> serde_json_to_string(<<>>)],
   [status |-> 500, headers |-> EmptyMap, text |-> <<"{", "o", "o", "p", "s">>]}

\* What reqwest's send gives: a transport error or a response.
SendOutcomes == {Err("Request", "request failed")} \cup {Ok(r) : r \in Responses}

\* The JSON objects a response body can hold.
JsonObjects == {<<>>, << <<<<"v", "a", "l", "i", "d">>, <<"y">>>> >>}

\* serde_json::from_str::<Value>
serde_json_from_str(text) ==
  IF \E v \in JsonObjects : serde_json_to_string(v) = text
    THEN Ok(CHOOSE v \in JsonObjects : serde_json_to_string(v) = text)
    ELSE Err("Json", "expected value")

\* HeaderValue::to_str: the text of a value of visible ASCII bytes.
HeaderValue_to_str(bytes) ==
  IF \A i \in 1..Len(bytes) : bytes[i] \in (32..126) \cup {9}
    THEN Ok([i \in 1..Len(bytes) |-> IF bytes[i] = 9 THEN " " ELSE AsciiTable[bytes[i] - 31]])
    ELSE Err("ToStrError", "failed to convert header to a str")

\* The NebulAuthResponse post_internal builds from a response.
NebulAuthResponse(response) ==
  [status_code |-> response.status,
   ok          |-> response.status >= 200 /\ response.status < 300,
   data        |-> IF IsBlank(response.text) THEN <<>>
                   ELSE IF serde_json_from_str(response.text).ok
                     THEN serde_json_from_str(response.text).v
                     ELSE << <<<<"e", "r", "r", "o", "r">>, response.text>> >>,
   headers     |-> [n \in DOMAIN response.headers |->
                      IF HeaderValue_to_str(response.headers[n]).ok
                        THEN HeaderValue_to_str(response.headers[n]).v
                        ELSE <<>>]]

InitPost ==
  /\ \E options \in PostClientOptions : new(options).ok /\ client = new(options).v
  /\ pc = "idle"
  /\ bah = NoFrame
  /\ bsh = NoSigning
  /\ ret = NoneOpt
  /\ work = NoWork
  /\ last = NoneOpt
  /\ req = NoRequest
  /\ flight = NoFlight

NewPostClient == NewClientFrom(PostClientOptions)

\* A public call up to its call of post_internal, or to its early return.
ApiCall(api, input, args) ==
  /\ pc = "idle"
  /\ IF args.ok
       THEN /\ req' = [NoRequest EXCEPT !.api = api, !.input = input,
                                        !.endpoint = args.v.endpoint,
                                        !.payload = args.v.payload,
                                        !.options = args.v.options]
            /\ pc' = "post"
       ELSE /\ req' = [NoRequest EXCEPT !.api = api, !.input = input,
                                        !.result = Some(args)]
            /\ pc' = "done"
  /\ UNCHANGED <<client, bah, bsh, ret, work, last, flight>>

VerifyKey == \E input \in VerifyKeyInputs : ApiCall("verify_key", input, verify_key(client, input))
AuthVerify == \E input \in AuthVerifyInputs : ApiCall("auth_verify", input, auth_verify(client, input))
RedeemKey == \E input \in RedeemKeyInputs : ApiCall("redeem_key", input, redeem_key(client, input))
ResetHwid == \E input \in ResetHwidInputs : ApiCall("reset_hwid", input, reset_hwid(client, input))
Post ==
  \E input \in PostInputs :
    ApiCall("post", input, post(client, input.endpoint, input.payload, input.options))

\* post_internal up to its call of build_auth_headers: the URL is built,
\* the payload serialized, Content-Type put into the header map and
\* build_auth_headers entered with "POST".
PostInternalBegin ==
  /\ pc = "post"
  /\ LET url == endpoint_url(client, req.endpoint) IN
     IF ~url.ok
       THEN /\ req' = [req EXCEPT !.result = Some(Err("Url", "url parse failed"))]
            /\ pc' = "done"
            /\ bah' = NoFrame
       ELSE LET body_string == serde_json_to_string(req.payload) IN
            /\ req' = [req EXCEPT
                         !.url = url.v,
                         !.body_string = body_string,
                         !.serialized = @ + 1,
                         !.headers = insert(EmptyMap, CONTENT_TYPE, ApplicationJson),
                         !.auth_calls = @ + 1]
            /\ bah' = [NoFrame EXCEPT
                         !.method = POST,
                         !.url = url.v,
                         !.body_string = body_string,
                         !.use_pop = req.options.use_pop,
                         !.access_token = req.options.access_token,
                         !.pop_key = req.options.pop_key]
            /\ pc' = "select"
  /\ ret' = NoneOpt
  /\ bsh' = NoSigning
  /\ work' = NoWork
  /\ UNCHANGED <<client, last, flight>>

\* A faulty AttachAuthHeaders: an error of build_auth_headers is dropped
\* and the request goes on without auth headers.
AttachAuthHeaders_IgnoresError ==
  /\ pc = "returned"
  /\ req.api # "none"
  /\ IF ~ret.v.ok
       THEN /\ pc' = "extra"
            /\ req' = req
       ELSE LET headers == insert_headers(req.headers, ret.v.v, "auth") IN
            IF ~headers.ok
              THEN /\ req' = [req EXCEPT !.result = Some(headers)]
                   /\ pc' = "done"
              ELSE /\ req' = [req EXCEPT !.headers = headers.v]
                   /\ pc' = "extra"
  /\ UNCHANGED <<client, bah, bsh, ret, work, last, flight>>

\* post_internal after build_auth_headers returned: its error ends the
\* call; its headers are converted and inserted into the header map.
AttachAuthHeaders ==
  /\ pc = "returned"
  /\ req.api # "none"
  /\ IF ~ret.v.ok
       THEN /\ req' = [req EXCEPT !.result = ret]
            /\ pc' = "done"
       ELSE LET headers == insert_headers(req.headers, ret.v.v, "auth") IN
            IF ~headers.ok
              THEN /\ req' = [req EXCEPT !.result = Some(headers)]
                   /\ pc' = "done"
              ELSE /\ req' = [req EXCEPT !.headers = headers.v]
                   /\ pc' = "extra"
  /\ UNCHANGED <<client, bah, bsh, ret, work, last, flight>>

\* post_internal's loop over options.extra_headers, after the auth headers.
AttachExtraHeaders ==
  /\ pc = "extra"
  /\ LET headers == insert_headers(req.headers, req.options.extra_headers, "extra") IN
     IF ~headers.ok
       THEN /\ req' = [req EXCEPT !.result = Some(headers)]
            /\ pc' = "done"
       ELSE /\ req' = [req EXCEPT !.headers = headers.v]
            /\ pc' = "send"
  /\ UNCHANGED <<client, bah, bsh, ret, work, last, flight>>

\* A faulty Send: the payload is serialized again for the body, with a
\* line feed after it.
Send_Reserializes ==
  /\ pc = "send"
  /\ \E outcome \in SendOutcomes :
       req' = [req EXCEPT
                 !.serialized = @ + 1,
                 !.sent = Some([method |-> POST, url |-> req.url,
                                headers |-> req.headers,
                                body |-> serde_json_to_string(req.payload) \o <<NL>>]),
                 !.response = IF outcome.ok THEN Some(outcome.v) ELSE NoneOpt,
                 !.result = Some(IF outcome.ok THEN Ok(NebulAuthResponse(outcome.v))
                                 ELSE outcome)]
  /\ pc' = "done"
  /\ UNCHANGED <<client, bah, bsh, ret, work, last, flight>>

\* A faulty Send: a 4xx or 5xx status is turned into a Request error, as
\* reqwest's error_for_status would.
Send_ErrorForStatus ==
  /\ pc = "send"
  /\ \E outcome \in SendOutcomes :
       req' = [req EXCEPT
                 !.sent = Some([method |-> POST, url |-> req.url,
                                headers |-> req.headers, body |-> req.body_string]),
                 !.response = IF outcome.ok THEN Some(outcome.v) ELSE NoneOpt,
                 !.result = Some(IF outcome.ok /\ outcome.v.status < 400
                                   THEN Ok(NebulAuthResponse(outcome.v))
                                 ELSE IF outcome.ok
                                   THEN Err("Request", "HTTP status client or server error")
                                 ELSE outcome)]
  /\ pc' = "done"
  /\ UNCHANGED <<client, bah, bsh, ret, work, last, flight>>

\* The request is sent with url, headers and body_string; a transport
\* error ends the call, a response becomes the NebulAuthResponse.
Send ==
  /\ pc = "send"
  /\ \E outcome \in SendOutcomes :
       req' = [req EXCEPT
                 !.sent = Some([method |-> POST, url |-> req.url,
                                headers |-> req.headers, body |-> req.body_string]),
                 !.response = IF outcome.ok THEN Some(outcome.v) ELSE NoneOpt,
                 !.result = Some(IF outcome.ok THEN Ok(NebulAuthResponse(outcome.v))
                                 ELSE outcome)]
  /\ pc' = "done"
  /\ UNCHANGED <<client, bah, bsh, ret, work, last, flight>>

\* The public call returns req.result; its locals are dropped.
PostReturn ==
  /\ pc = "done"
  /\ req.api # "none"
  /\ pc' = "idle"
  /\ req' = NoRequest
  /\ bah' = NoFrame
  /\ bsh' = NoSigning
  /\ ret' = NoneOpt
  /\ work' = NoWork
  /\ UNCHANGED <<client, last, flight>>

NextPost ==
  \/ NewPostClient
  \/ VerifyKey
  \/ AuthVerify
  \/ RedeemKey
  \/ ResetHwid
  \/ Post
  \/ PostInternalBegin
  \/ PopCheck
  \/ BearerCheck
  \/ ReplayCheck
  \/ SignPath
  \/ SignTimestamp
  \/ SignNonce
  \/ SignHeaders
  \/ MergeHeaders
  \/ AttachAuthHeaders
  \/ AttachExtraHeaders
  \/ Send
  \/ PostReturn

SpecPost == InitPost /\ [][NextPost]_vars

(***************************************************************************)
(* Claims about post_internal and the public calls (SpecPost)              *)
(***************************************************************************)

\* A public call is in progress.
InCall == req.api # "none"

\* The request has been handed to reqwest.
Sent == req.sent.some

\* build_auth_headers is running or has just returned to post_internal.
InBuildAuthHeaders ==
  /\ InCall
  /\ pc \in {"select", "replay", "path", "timestamp", "nonce", "sign", "merge", "returned"}

\* The name a header of the HashMap has in the HeaderMap.
SentName(k) == HeaderName_from_bytes(HeaderNameText[k]).v

\* C13: in every signed request post_internal sends, the body hash in the
\* canonical string and in X-Body-Sha256 is the SHA-256 of the very string
\* sent as the body: the body is serialized once and sent as serialized,
\* and when it is hashed no request exists yet and the header map holds
\* nothing but Content-Type.
C13_BodyHashOfTransmittedBody ==
  /\ (Sent /\ HasSigned) =>
       /\ req.serialized = 1
       /\ req.sent.v.body = serde_json_to_string(req.payload)
       /\ bsh.body_hash = sha256_hex(req.sent.v.body)
       /\ Split(bsh.canonical, NL)[5] = sha256_hex(req.sent.v.body)
       /\ "X-Body-Sha256" \in DOMAIN ret.v.v =>
            ret.v.v["X-Body-Sha256"] = sha256_hex(req.sent.v.body)
  /\ (InCall /\ pc \in {"merge", "returned"} /\ HasSigned) =>
       /\ ~Sent
       /\ DOMAIN req.headers = {CONTENT_TYPE}

\* C13 witness: a Strict client has sent a signed request and
\* build_auth_headers had returned X-Body-Sha256.
C13_Witness ==
  /\ Sent /\ HasSigned
  /\ client.options.replay_protection = "Strict" /\ ~bah.use_pop
  /\ "X-Body-Sha256" \in DOMAIN ret.v.v

\* C14: a request is sent only after exactly one call of
\* build_auth_headers, made after the one serialization of the body, that
\* returned Ok and whose headers converted; a call that ends in a Config,
\* Url or Crypto error has sent nothing.
C14_OneAuthCallBeforeSend ==
  /\ req.auth_calls <= 1
  /\ InBuildAuthHeaders =>
       /\ req.auth_calls = 1 /\ req.serialized = 1
       /\ bah.body_string = req.body_string
       /\ ~Sent
  /\ Sent =>
       /\ req.auth_calls = 1 /\ req.serialized = 1
       /\ ret.some /\ ret.v.ok
       /\ insert_headers(insert(EmptyMap, CONTENT_TYPE, ApplicationJson), ret.v.v, "auth").ok
  /\ (InCall /\ req.result.some /\ ~req.result.v.ok
        /\ req.result.v.err \in {"Config", "Url", "Crypto"}) => ~Sent

\* C14 witness: a call has sent its request and got a response.
C14_Witness ==
  /\ Sent /\ req.auth_calls = 1
  /\ req.result.some /\ req.result.v.ok

\* C15: every header build_auth_headers returned is in the request sent,
\* with the value returned, whatever extra_headers the caller gave.
C15_AuthHeadersSentAsReturned ==
  Sent =>
    \A k \in DOMAIN ret.v.v :
      /\ SentName(k) \in DOMAIN req.sent.v.headers
      /\ req.sent.v.headers[SentName(k)] = ret.v.v[k]

\* The members of a payload, as a set of <<name, value>> pairs.
Members(payload) == {payload[i] : i \in 1..Len(payload)}

\* The members a payload has for the values that are there.
Supplied(pairs) == {<<p[1], p[2].v>> : p \in {q \in pairs : q[2].some}}

\* The call ended in a Config error before post_internal was entered:
\* nothing serialized, no header built, nothing sent.
RejectedAtEntry ==
  /\ pc = "done"
  /\ req.result.some /\ ~req.result.v.ok /\ req.result.v.err = "Config"
  /\ req.serialized = 0 /\ req.auth_calls = 0
  /\ bah = NoFrame /\ bsh = NoSigning /\ ret = NoneOpt /\ work = NoWork
  /\ req.headers = EmptyMap
  /\ ~Sent

\* C19: redeem_key takes the input's service_slug when there is one and the
\* client's otherwise; with neither it ends in a Config error before any
\* header is built or request sent, and with one the payload carries it as
\* serviceSlug and the call goes on into post_internal.
C19_RedeemKeyServiceSlug ==
  req.api = "redeem_key" =>
    LET slug == IF req.input.service_slug.some THEN req.input.service_slug
                ELSE client.options.service_slug
    IN IF ~slug.some
         THEN RejectedAtEntry
         ELSE /\ ~RejectedAtEntry
              /\ {m \in Members(req.payload) : m[1] = <<"s", "e", "r", "v", "i", "c", "e", "S", "l", "u", "g">>}
                   = {<<<<"s", "e", "r", "v", "i", "c", "e", "S", "l", "u", "g">>, slug.v>>}
              /\ Sent => req.sent.v.body = serde_json_to_string(req.payload)

\* C19 witness: a redeem_key call without a service_slug of its own was
\* sent with the client's.
C19_Witness ==
  /\ req.api = "redeem_key" /\ Sent
  /\ ~req.input.service_slug.some
  /\ client.options.service_slug.some
  /\ <<<<"s", "e", "r", "v", "i", "c", "e", "S", "l", "u", "g">>, client.options.service_slug.v>> \in Members(req.payload)

\* C20 as stated: a reset_hwid call ends in a Config error with nothing
\* sent exactly when both discord_id and key are absent.
C20_ConfigErrorIffNoIdentifier ==
  (req.api = "reset_hwid" /\ pc = "done") =>
    ((~req.result.v.ok /\ req.result.v.err = "Config" /\ ~Sent)
       <=> (~req.input.discord_id.some /\ ~req.input.key.some))

\* C20: reset_hwid ends in a Config error before post_internal is entered
\* exactly when both discord_id and key are absent; otherwise
\* post_internal is entered with a payload of exactly the identifiers
\* supplied, and requestId when given, which is the body sent; a Config
\* error of such a call comes from build_auth_headers.
C20_ResetHwidIdentifiers ==
  req.api = "reset_hwid" =>
    IF ~req.input.discord_id.some /\ ~req.input.key.some
      THEN RejectedAtEntry
      ELSE /\ ~RejectedAtEntry
           /\ Members(req.payload) =
                Supplied({<<<<"d", "i", "s", "c", "o", "r", "d", "I", "d">>, req.input.discord_id>>,
                          <<<<"k", "e", "y">>, req.input.key>>,
                          <<<<"r", "e", "q", "u", "e", "s", "t", "I", "d">>, req.input.request_id>>})
           /\ Len(req.payload) = Cardinality(Members(req.payload))
           /\ Sent => req.sent.v.body = serde_json_to_string(req.payload)
           /\ (pc = "done" /\ ~req.result.v.ok /\ req.result.v.err = "Config")
                => /\ req.auth_calls = 1
                   /\ req.result = ret

\* C20 witness: a reset_hwid call with a key and no discord_id was sent.
C20_Witness ==
  /\ req.api = "reset_hwid" /\ Sent
  /\ req.input.key.some /\ ~req.input.discord_id.some

\* The response reqwest gave to the call, when the exchange completed.
Completed == pc = "done" /\ Sent /\ req.response.some

\* C21: a completed HTTP exchange never gives an error because of its
\* status or body: post_internal returns Ok with the response's status code,
\* ok true exactly for a status in 200..299, and data the empty object for a
\* blank body, the parsed value for a body that is valid JSON, and the
\* object with the one member "error" holding the body text otherwise.
C21_CompletedExchangeIsOk ==
  Completed =>
    LET response == req.response.v
        valid    == \E v \in JsonObjects : serde_json_to_string(v) = response.text
    IN /\ req.result.some /\ req.result.v.ok
       /\ req.result.v.v.status_code = response.status
       /\ req.result.v.v.ok <=> response.status \in 200..299
       /\ IsBlank(response.text) => req.result.v.v.data = <<>>
       /\ (~IsBlank(response.text) /\ valid) =>
            serde_json_to_string(req.result.v.v.data) = response.text
       /\ (~IsBlank(response.text) /\ ~valid) =>
            req.result.v.v.data = << <<<<"e", "r", "r", "o", "r">>, response.text>> >>

\* C21 witness: a 401 answer with a body that is not JSON came back as Ok
\* with ok false and the body under "error".
C21_Witness ==
  /\ Completed
  /\ req.response.v.status = 401
  /\ req.result.v.ok /\ ~req.result.v.v.ok
  /\ req.result.v.v.data = << <<<<"e", "r", "r", "o", "r">>, <<"d", "e", "n", "i", "e", "d">>>> >>

(***************************************************************************)
(* Claims about the override and the client (Spec)                         *)
(***************************************************************************)

\* Some, but not all, of use_pop, access_token and pop_key are given.
PartialOverride(frame) ==
  /\ frame.use_pop \/ frame.access_token.some \/ frame.pop_key.some
  /\ ~(frame.use_pop /\ frame.access_token.some /\ frame.pop_key.some)

\* C16 as stated: every call with a partial override, also one with an
\* access_token or pop_key and no use_pop, ends in a Config error.
C16_PartialOverrideRejected ==
  (Returned /\ PartialOverride(bah)) =>
    /\ ~ret.v.ok
    /\ ret.v.err = "Config"

\* C16: use_pop without access_token or without pop_key is a Config error;
\* without use_pop, access_token and pop_key are not looked at: the call
\* succeeds exactly when the client holds the credentials of its mode, with
\* the client's bearer_token in Authorization and the client's
\* signing_secret as the key of the signature.
C16_OverrideNeedsUsePop ==
  Returned =>
    /\ (bah.use_pop /\ (~bah.access_token.some \/ ~bah.pop_key.some)) =>
         /\ ~ret.v.ok
         /\ ret.v.err = "Config"
    /\ ~bah.use_pop =>
         /\ ret.v.ok <=>
              /\ client.options.bearer_token.some
              /\ client.options.replay_protection # "None"
                   => client.options.signing_secret.some
         /\ ret.v.ok =>
              /\ ret.v.v["Authorization"] = bearer(client.options.bearer_token.v)
              /\ HasSigned <=> client.options.replay_protection # "None"
              /\ HasSigned =>
                   ret.v.v["X-Signature"] =
                     hex_lower(HmacSha256(as_bytes(client.options.signing_secret.v),
                                          as_bytes(bsh.canonical)))

\* C16 witness: a call with an access_token and a pop_key but no use_pop
\* has succeeded on a Strict client, signed with the client's credentials.
C16_Witness ==
  /\ Returned /\ ~bah.use_pop /\ bah.access_token.some /\ bah.pop_key.some
  /\ client.options.replay_protection = "Strict"
  /\ ret.v.ok /\ HasSigned
  /\ ret.v.v["Authorization"] = bearer(client.options.bearer_token.v)

\* C17: header construction has no side effect on the client.  No step of
\* a call changes the client (mode, bearer_token, signing_secret,
\* base_path), and when a call is over nothing of it is left: the frames
\* with its access_token, pop_key, timestamp and nonce are gone, so the
\* next call starts from the client alone.
C17_NoSideEffectOnClient ==
  [][/\ pc # "idle" => client' = client
     /\ pc' = "idle" =>
          /\ bah' = NoFrame /\ bsh' = NoSigning
          /\ ret' = NoneOpt /\ work' = NoWork
          /\ last' = NoneOpt /\ req' = NoRequest /\ flight' = NoFlight]_vars

\* C17 witness: a PoP call has drawn its timestamp and nonce and signed
\* with its pop_key on a client that holds neither bearer_token nor
\* signing_secret.
C17_Witness ==
  /\ pc = "merge" /\ bah.use_pop
  /\ bsh.timestamp # <<>> /\ bsh.nonce # <<>>
  /\ bah.secret = bah.pop_key.v
  /\ ~client.options.bearer_token.some
  /\ ~client.options.signing_secret.some

(***************************************************************************)
(* Concurrent calls on one client (SpecFlight): every call in flight has   *)
(* its own frame of build_auth_headers and build_signing_headers, and the  *)
(* steps of the calls interleave.                                          *)
(***************************************************************************)

NumCalls == 2

Calls == 1..NumCalls

\* What the caller of call c passes: each call has its own endpoint and
\* payload; the even calls are PoP calls.
FlightArgs(c) ==
  [endpoint |-> IF c % 2 = 1 THEN <<"/", "k">> ELSE <<"v", "1", "/", "k">>,
   payload  |-> << <<<<"k", "e", "y">>, to_string(c)>> >>,
   options  |-> IF c % 2 = 1 THEN NoOverride ELSE PopOverride]

\* The client the calls share: Strict mode with both credentials.
FlightClientOptions ==
  {o \in SigningClientOptions : o.replay_protection = "Strict"}

\* The frame of a call that has not started.
IdleFrame == [pc |-> "idle", bah |-> NoFrame, bsh |-> NoSigning, ret |-> NoneOpt]

\* post_internal up to its call of build_auth_headers, in a frame.
FrameCall(self, args) ==
  LET url == endpoint_url(self, args.endpoint) IN
  IF ~url.ok
    THEN [IdleFrame EXCEPT !.pc = "returned",
                           !.ret = Some(Err("Url", "url parse failed"))]
    ELSE [IdleFrame EXCEPT
            !.pc = "select",
            !.bah = [NoFrame EXCEPT
                       !.method = POST,
                       !.url = url.v,
                       !.body_string = serde_json_to_string(args.payload),
                       !.use_pop = args.options.use_pop,
                       !.access_token = args.options.access_token,
                       !.pop_key = args.options.pop_key]]

\* build_auth_headers, if use_pop, in a frame.
FramePopCheck(f) ==
  IF ~f.bah.access_token.some
    THEN [f EXCEPT !.pc = "returned",
                   !.ret = Some(Err("Config", "access_token is required when use_pop=true"))]
  ELSE IF ~f.bah.pop_key.some
    THEN [f EXCEPT !.pc = "returned",
                   !.ret = Some(Err("Config", "pop_key is required when use_pop=true"))]
  ELSE [f EXCEPT !.pc = "path",
                 !.bah.token = f.bah.access_token.v,
                 !.bah.secret = f.bah.pop_key.v]

\* build_auth_headers, bearer branch, in a frame.
FrameBearerCheck(self, f) ==
  IF ~self.options.bearer_token.some
    THEN [f EXCEPT !.pc = "returned",
                   !.ret = Some(Err("Config", "bearer_token is required for bearer mode"))]
    ELSE [f EXCEPT !.pc = "replay",
                   !.bah.token = self.options.bearer_token.v,
                   !.bah.headers = insert(EmptyMap, "Authorization",
                                          bearer(self.options.bearer_token.v))]

\* build_auth_headers, the replay_protection test, in a frame.
FrameReplayCheck(self, f) ==
  IF self.options.replay_protection = "None"
    THEN [f EXCEPT !.pc = "returned", !.ret = Some(Ok(f.bah.headers))]
  ELSE IF ~self.options.signing_secret.some
    THEN [f EXCEPT !.pc = "returned",
                   !.ret = Some(Err("Config",
                             "signing_secret is required when replay_protection is nonce/strict"))]
  ELSE [f EXCEPT !.pc = "path", !.bah.secret = self.options.signing_secret.v]

\* build_signing_headers: canonical_path, in a frame.
FrameSignPath(self, f) ==
  LET path == canonical_path(self, f.bah.url) IN
  IF ~path.ok
    THEN [f EXCEPT !.pc = "returned", !.ret = Some(Err("Url", "url parse failed"))]
    ELSE [f EXCEPT !.pc = "timestamp", !.bsh.path = path.v]

\* build_signing_headers: the timestamp, in a frame.
FrameSignTimestamp(f, reading) ==
  [f EXCEPT !.pc = "nonce",
            !.bsh.timestamp = to_string(current_timestamp_ms(reading))]

\* build_signing_headers: the nonce, in a frame.
FrameSignNonce(f, bytes) ==
  [f EXCEPT !.pc = "sign", !.bsh.nonce = random_nonce(bytes)]

\* build_signing_headers: body hash, canonical string, signature and the
\* header map, in a frame (new_from_slice takes every key, so there is no
\* error to return).
FrameSignHeaders(f) ==
  LET body_hash == sha256_hex(f.bah.body_string)
      canonical == canonical_string(f.bah.method, f.bsh.path, f.bsh.timestamp,
                                    f.bsh.nonce, body_hash)
  IN [f EXCEPT !.pc = "merge",
               !.bsh.body_hash = body_hash,
               !.bsh.canonical = canonical,
               !.bsh.headers = signing_headers(f.bsh.timestamp, f.bsh.nonce,
                                               sign(f.bah.secret, canonical), body_hash)]

\* build_auth_headers after build_signing_headers has returned, in a frame.
FrameMergeHeaders(self, f) ==
  [f EXCEPT !.pc = "returned",
            !.ret = Some(Ok(merged_headers(self, f.bah, f.bsh.headers)))]

InitFlight ==
  /\ \E options \in FlightClientOptions : new(options).ok /\ client = new(options).v
  /\ pc = "idle"
  /\ bah = NoFrame
  /\ bsh = NoSigning
  /\ ret = NoneOpt
  /\ work = NoWork
  /\ last = NoneOpt
  /\ req = NoRequest
  /\ flight = [c \in Calls |-> IdleFrame]

\* Call c moves to the frame given; nothing else changes.
FlightMove(c, frame) ==
  /\ flight' = [flight EXCEPT ![c] = frame]
  /\ UNCHANGED <<client, pc, bah, bsh, ret, work, last, req>>

FlightCall(c) ==
  /\ flight[c].pc = "idle"
  /\ FlightMove(c, FrameCall(client, FlightArgs(c)))

FlightPopCheck(c) ==
  /\ flight[c].pc = "select" /\ flight[c].bah.use_pop
  /\ FlightMove(c, FramePopCheck(flight[c]))

FlightBearerCheck(c) ==
  /\ flight[c].pc = "select" /\ ~flight[c].bah.use_pop
  /\ FlightMove(c, FrameBearerCheck(client, flight[c]))

FlightReplayCheck(c) ==
  /\ flight[c].pc = "replay"
  /\ FlightMove(c, FrameReplayCheck(client, flight[c]))

FlightSignPath(c) ==
  /\ flight[c].pc = "path"
  /\ FlightMove(c, FrameSignPath(client, flight[c]))

FlightSignTimestamp(c) ==
  /\ flight[c].pc = "timestamp"
  /\ \E reading \in ClockReadings : FlightMove(c, FrameSignTimestamp(flight[c], reading))

FlightSignNonce(c) ==
  /\ flight[c].pc = "nonce"
  /\ \E bytes \in RandomDraws : FlightMove(c, FrameSignNonce(flight[c], bytes))

\* A faulty FlightSignHeaders: timestamp and nonce for the canonical
\* string are read from a place all calls write to, so the signature of a
\* call may cover those of another call in flight.
FlightSignHeaders_SharedSigningInput(c) ==
  /\ flight[c].pc = "sign"
  /\ \E d \in Calls :
       /\ flight[d].bsh.nonce # <<>>
       /\ LET own   == FrameSignHeaders(flight[c])
              other == FrameSignHeaders([flight[c] EXCEPT
                                           !.bsh.timestamp = flight[d].bsh.timestamp,
                                           !.bsh.nonce = flight[d].bsh.nonce])
          IN FlightMove(c, [own EXCEPT
                              !.bsh.canonical = other.bsh.canonical,
                              !.bsh.headers = insert(@, "X-Signature",
                                                     other.bsh.headers["X-Signature"])])

FlightSignHeaders(c) ==
  /\ flight[c].pc = "sign"
  /\ FlightMove(c, FrameSignHeaders(flight[c]))

FlightMergeHeaders(c) ==
  /\ flight[c].pc = "merge"
  /\ FlightMove(c, FrameMergeHeaders(client, flight[c]))

\* The caller has taken the result of call c.
FlightReturn(c) ==
  /\ flight[c].pc = "returned"
  /\ FlightMove(c, IdleFrame)

NextFlight ==
  \E c \in Calls :
    \/ FlightCall(c)
    \/ FlightPopCheck(c)
    \/ FlightBearerCheck(c)
    \/ FlightReplayCheck(c)
    \/ FlightSignPath(c)
    \/ FlightSignTimestamp(c)
    \/ FlightSignNonce(c)
    \/ FlightSignHeaders(c)
    \/ FlightMergeHeaders(c)
    \/ FlightReturn(c)

SpecFlight == InitFlight /\ [][NextFlight]_vars

\* The header set call c got from its own arguments, given the X-Timestamp
\* and X-Nonce it was handed.
OwnHeaders(c, timestamp, nonce) ==
  LET args      == FlightArgs(c)
      url       == endpoint_url(client, args.endpoint).v
      body_hash == sha256_hex(serde_json_to_string(args.payload))
      secret    == IF args.options.use_pop THEN args.options.pop_key.v
                   ELSE client.options.signing_secret.v
      token     == IF args.options.use_pop THEN args.options.access_token.v
                   ELSE client.options.bearer_token.v
      canonical == canonical_string(POST, canonical_path(client, url).v,
                                    timestamp, nonce, body_hash)
  IN insert(signing_headers(timestamp, nonce, sign(secret, canonical), body_hash),
            "Authorization", bearer(token))

\* C18: under every interleaving of the calls in flight, the headers
\* returned to a call are those of its own arguments: X-Signature is the
\* HMAC, under the call's own key, of the canonical string of its own
\* method, path and body hash with the X-Timestamp and X-Nonce returned to
\* that same call.
C18_CallsShareNothing ==
  \A c \in Calls :
    (flight # NoFlight /\ flight[c].pc = "returned") =>
      /\ flight[c].ret.v.ok
      /\ flight[c].ret.v.v =
           OwnHeaders(c, flight[c].ret.v.v["X-Timestamp"], flight[c].ret.v.v["X-Nonce"])

\* C18 witness: call 1 has returned while call 2, which drew another
\* timestamp and another nonce, is about to sign.
C18_Witness ==
  /\ flight # NoFlight
  /\ flight[1].pc = "returned" /\ flight[2].pc = "sign"
  /\ flight[1].bsh.nonce # flight[2].bsh.nonce
  /\ flight[1].bsh.timestamp # flight[2].bsh.timestamp

(***************************************************************************)
(* NebulAuthDashboardClient::request (SpecDashboard)                       *)
(***************************************************************************)

DEFAULT_DASHBOARD_BASE_URL == <<"h", "t", "t", "p", "s", ":", "/", "/", "a", "p", "i", ".", "n", "e", "b", "u", "l", "a", "u", "t", "h", ".", "c", "o", "m", "/", "d", "a", "s", "h", "b", "o", "a", "r", "d">>

\* The two variants of DashboardAuth.
DashboardAuth_Session(session_cookie) ==
  [variant |-> "Session", session_cookie |-> session_cookie]
DashboardAuth_Bearer(bearer_token) ==
  [variant |-> "Bearer", bearer_token |-> bearer_token]

\* NebulAuthDashboardClient::new
NebulAuthDashboardClient_new(options) ==
  Ok([base_url     |-> IF IsBlank(options.base_url) THEN DEFAULT_DASHBOARD_BASE_URL
                       ELSE trim_end_matches(options.base_url, "/"),
      default_auth |-> options.auth])

\* The names of the two auth headers, as HeaderName::from_static has them.
COOKIE == <<"c", "o", "o", "k", "i", "e">>
AUTHORIZATION == <<"a", "u", "t", "h", "o", "r", "i", "z", "a", "t", "i", "o", "n">>
SessionPrefix == <<"m", "c", "_", "s", "e", "s", "s", "i", "o", "n", "=">>

\* request's loop over options.extra_headers, into an empty HeaderMap.
dashboard_extra_headers(extra_headers) ==
  LET name(k) == HeaderName_from_bytes(HeaderNameText[k]) IN
  IF \E k \in DOMAIN extra_headers : ~name(k).ok
    THEN Err("Config", "invalid header name")
  ELSE IF \E k \in DOMAIN extra_headers : ~HeaderValue_from_str(extra_headers[k]).ok
    THEN Err("Config", "invalid header value")
  ELSE Ok([n \in {name(k).v : k \in DOMAIN extra_headers} |->
             extra_headers[CHOOSE k \in DOMAIN extra_headers : name(k).v = n]])

\* A faulty auth step: a header the caller's extra_headers already set is
\* left as the caller set it.
dashboard_auth_header_KeepsExtra(headers, auth) ==
  IF ~auth.some THEN Ok(headers)
  ELSE
    LET name  == IF auth.v.variant = "Session" THEN COOKIE ELSE AUTHORIZATION
        value == IF auth.v.variant = "Session"
                   THEN SessionPrefix \o auth.v.session_cookie
                   ELSE BearerPrefix \o auth.v.bearer_token
    IN IF ~HeaderValue_from_str(value).ok
         THEN Err("Config", IF auth.v.variant = "Session" THEN "invalid cookie header"
                            ELSE "invalid authorization header")
       ELSE IF name \in DOMAIN headers THEN Ok(headers)
       ELSE Ok(insert(headers, name, value))

\* request's match on the effective auth: the Session variant inserts
\* cookie, the Bearer variant authorization, None nothing.
dashboard_auth_header(headers, auth) ==
  IF ~auth.some THEN Ok(headers)
  ELSE
    LET name  == IF auth.v.variant = "Session" THEN COOKIE ELSE AUTHORIZATION
        value == IF auth.v.variant = "Session"
                   THEN SessionPrefix \o auth.v.session_cookie
                   ELSE BearerPrefix \o auth.v.bearer_token
    IN IF ~HeaderValue_from_str(value).ok
         THEN Err("Config", IF auth.v.variant = "Session" THEN "invalid cookie header"
                            ELSE "invalid authorization header")
       ELSE Ok(insert(headers, name, value))

\* The methods request accepts, after to_uppercase.
DashboardMethods == {<<"G", "E", "T">>, <<"P", "O", "S", "T">>, <<"P", "A", "T", "C", "H">>, <<"D", "E", "L", "E", "T", "E">>}

\* The DashboardResponse request builds from a response: a body that is
\* not JSON becomes a JSON string.
DashboardResponse(response) ==
  [status_code |-> response.status,
   ok          |-> response.status >= 200 /\ response.status < 300,
   data        |-> IF IsBlank(response.text) THEN <<>>
                   ELSE IF serde_json_from_str(response.text).ok
                     THEN serde_json_from_str(response.text).v
                     ELSE [String |-> response.text],
   headers     |-> [n \in DOMAIN response.headers |->
                      IF HeaderValue_to_str(response.headers[n]).ok
                        THEN HeaderValue_to_str(response.headers[n]).v
                        ELSE <<>>]]

\* Inputs of the dashboard model.
DashboardClientAuths ==
  {NoneOpt, Some(DashboardAuth_Session(<<"c", "1">>)), Some(DashboardAuth_Bearer(<<"t", "1">>))}

DashboardRequestAuths ==
  {NoneOpt, Some(DashboardAuth_Session(<<"c", "2">>)), Some(DashboardAuth_Bearer(<<"t", "2">>)),
   Some(DashboardAuth_Bearer(<<"t", NL>>))}

DashboardClientOptions ==
  [base_url : {<<"h", "t", "t", "p", ":", "/", "/", "h", "/", "d", "/">>}, auth : DashboardClientAuths]

DashboardExtraHeaderMaps ==
  {EmptyMap,
   insert(EmptyMap, "Cookie", <<"m", "c", "_", "s", "e", "s", "s", "i", "o", "n", "=", "x">>),
   insert(EmptyMap, "authorization", <<"B", "e", "a", "r", "e", "r", " ", "x">>),
   insert(insert(EmptyMap, "cookie", <<"a", "=", "1">>), "X-Trace", <<"t">>),
   insert(EmptyMap, "bad name", <<"v">>)}

DashboardQueries == {<<>>, << <<<<"q">>, <<"1">>>> >>}

DashboardRequestOptions ==
  [auth : DashboardRequestAuths, query : DashboardQueries,
   extra_headers : DashboardExtraHeaderMaps]

\* method, path and body of the calls: me, logout, and a method request
\* does not know.
DashboardCalls ==
  {[method |-> <<"G", "E", "T">>, path |-> <<"/", "m", "e">>, body |-> NoneOpt],
   [method |-> <<"p", "o", "s", "t">>, path |-> <<"a", "u", "t", "h", "/", "l", "o", "g", "o", "u", "t">>, body |-> Some(<<>>)],
   [method |-> <<"P", "U", "T">>, path |-> <<"/", "m", "e">>, body |-> NoneOpt]}

InitDashboard ==
  /\ \E options \in DashboardClientOptions :
       client = NebulAuthDashboardClient_new(options).v
  /\ pc = "idle"
  /\ bah = NoFrame
  /\ bsh = NoSigning
  /\ ret = NoneOpt
  /\ work = NoWork
  /\ last = NoneOpt
  /\ req = NoRequest
  /\ flight = NoFlight

NewDashboardClient ==
  /\ pc = "idle"
  /\ \E options \in DashboardClientOptions :
       client' = NebulAuthDashboardClient_new(options).v
  /\ UNCHANGED <<pc, bah, bsh, ret, work, last, req, flight>>

\* request is entered: the endpoint gets its leading "/", the URL is parsed
\* and the query pairs are appended.
DashboardRequest ==
  /\ pc = "idle"
  /\ \E call \in DashboardCalls, options \in DashboardRequestOptions :
       LET endpoint == IF starts_with(call.path, <<"/">>) THEN call.path
                       ELSE <<"/">> \o call.path
           url      == Url_parse(client.base_url \o endpoint)
           query    == IF options.query = <<>> THEN <<>>
                       ELSE <<"?">> \o options.query[1][1] \o <<"=">> \o options.query[1][2]
       IN IF ~url.ok
            THEN /\ req' = [NoRequest EXCEPT !.api = "request", !.input = Some(call),
                                             !.endpoint = endpoint, !.options = options,
                                             !.result = Some(url)]
                 /\ pc' = "done"
            ELSE /\ req' = [NoRequest EXCEPT !.api = "request", !.input = Some(call),
                                             !.endpoint = endpoint, !.options = options,
                                             !.url = Url_to_string(url.v) \o query]
                 /\ pc' = "dash_extra"
  /\ UNCHANGED <<client, bah, bsh, ret, work, last, flight>>

\* The loop over options.extra_headers.
DashboardExtraHeaders ==
  /\ pc = "dash_extra"
  /\ LET headers == dashboard_extra_headers(req.options.extra_headers) IN
     IF ~headers.ok
       THEN /\ req' = [req EXCEPT !.result = Some(headers)]
            /\ pc' = "done"
       ELSE /\ req' = [req EXCEPT !.headers = headers.v]
            /\ pc' = "dash_auth"
  /\ UNCHANGED <<client, bah, bsh, ret, work, last, flight>>

\* options.auth.or_else(default_auth) and the header it gives.
DashboardAuthHeader ==
  /\ pc = "dash_auth"
  /\ LET auth    == IF req.options.auth.some THEN req.options.auth ELSE client.default_auth
         headers == dashboard_auth_header(req.headers, auth)
     IN IF ~headers.ok
          THEN /\ req' = [req EXCEPT !.result = Some(headers)]
               /\ pc' = "done"
          ELSE /\ req' = [req EXCEPT !.headers = headers.v]
               /\ pc' = "dash_send"
  /\ UNCHANGED <<client, bah, bsh, ret, work, last, flight>>

\* The method is matched, the request built (Content-Type and the body when
\* there is one) and sent; the answer becomes the DashboardResponse.
DashboardSend ==
  /\ pc = "dash_send"
  /\ LET call   == req.input.v
         method == to_uppercase(call.method)
     IN IF method \notin DashboardMethods
          THEN req' = [req EXCEPT
                         !.result = Some(Err("Config", "unsupported dashboard method"))]
          ELSE \E outcome \in SendOutcomes :
                 req' = [req EXCEPT
                   !.body_string = IF call.body.some THEN serde_json_to_string(call.body.v)
                                   ELSE <<>>,
                   !.sent = Some([method  |-> method, url |-> req.url,
                                  headers |-> IF call.body.some
                                                THEN insert(req.headers, CONTENT_TYPE, ApplicationJson)
                                                ELSE req.headers,
                                  body    |-> IF call.body.some
                                                THEN Some(serde_json_to_string(call.body.v))
                                                ELSE NoneOpt]),
                   !.response = IF outcome.ok THEN Some(outcome.v) ELSE NoneOpt,
                   !.result = Some(IF outcome.ok THEN Ok(DashboardResponse(outcome.v))
                                   ELSE outcome)]
  /\ pc' = "done"
  /\ UNCHANGED <<client, bah, bsh, ret, work, last, flight>>

NextDashboard ==
  \/ NewDashboardClient
  \/ DashboardRequest
  \/ DashboardExtraHeaders
  \/ DashboardAuthHeader
  \/ DashboardSend
  \/ PostReturn

SpecDashboard == InitDashboard /\ [][NextDashboard]_vars

\* The auth a dashboard request runs under.
EffectiveAuth ==
  IF req.options.auth.some THEN req.options.auth ELSE client.default_auth

\* The headers a sent dashboard request carries besides Content-Type.
SentHeaders ==
  [n \in DOMAIN req.sent.v.headers \ {CONTENT_TYPE} |-> req.sent.v.headers[n]]

\* C22: every dashboard request that is sent runs under the per-request
\* auth when given and the client's default auth otherwise; with no auth
\* the headers are the caller's extra_headers, with Session auth they are
\* the extra_headers with cookie set to mc_session=<cookie>, with Bearer
\* auth the extra_headers with authorization set to Bearer <token>, the
\* auth header replacing an entry of that name in extra_headers and being
\* the only header the auth adds.
C22_DashboardAuthHeader ==
  (req.api = "request" /\ Sent) =>
    LET extra == dashboard_extra_headers(req.options.extra_headers).v
        auth  == EffectiveAuth
        name  == IF auth.v.variant = "Session" THEN COOKIE ELSE AUTHORIZATION
    IN IF ~auth.some THEN SentHeaders = extra
       ELSE /\ DOMAIN SentHeaders = DOMAIN extra \cup {name}
            /\ \A n \in DOMAIN extra \ {name} : SentHeaders[n] = extra[n]
            /\ auth.v.variant = "Session" =>
                 SentHeaders[COOKIE] = <<"m", "c", "_", "s", "e", "s", "s", "i", "o", "n", "=">> \o auth.v.session_cookie
            /\ auth.v.variant = "Bearer" =>
                 SentHeaders[AUTHORIZATION] = <<"B", "e", "a", "r", "e", "r", " ">> \o auth.v.bearer_token

\* C22 witness: a request with its own Session auth on a client whose
\* default is Bearer was sent, and the caller's Cookie header gave way to
\* the session cookie.
C22_Witness ==
  /\ req.api = "request" /\ Sent
  /\ client.default_auth = Some(DashboardAuth_Bearer(<<"t", "1">>))
  /\ req.options.auth = Some(DashboardAuth_Session(<<"c", "2">>))
  /\ "Cookie" \in DOMAIN req.options.extra_headers
  /\ req.sent.v.headers[COOKIE] = <<"m", "c", "_", "s", "e", "s", "s", "i", "o", "n", "=", "c", "2">>
  /\ AUTHORIZATION \notin DOMAIN req.sent.v.headers

(***************************************************************************)
(* Claims about the clock and the signed headers (Spec)                    *)
(***************************************************************************)

\* The timestamps a readable clock gives.
ClockTimestamps == {to_string(reading.v) : reading \in {r \in ClockReadings : r.ok}}

\* C23: a clock that cannot be read never aborts signing.  After the clock
\* has been read the timestamp is that of the reading, or 0 when the reading
\* failed; a call that has read the clock returns Ok; and a call that signed
\* with timestamp 0 returns Authorization, X-Timestamp "0", X-Nonce and
\* X-Signature, the signature being over the canonical string with 0 in its
\* timestamp field.
C23_ClockFailureSignsWithZero ==
  /\ work.clock_reads > 0 => bsh.timestamp \in ClockTimestamps \cup {<<"0">>}
  /\ (Returned /\ work.clock_reads > 0) => ret.v.ok
  /\ (Returned /\ work.clock_reads > 0 /\ bsh.timestamp = <<"0">>) =>
       /\ {"Authorization", "X-Timestamp", "X-Nonce", "X-Signature"} \subseteq DOMAIN ret.v.v
       /\ ret.v.v["X-Timestamp"] = <<"0">>
       /\ ret.v.v["X-Nonce"] = bsh.nonce
       /\ Split(bsh.canonical, NL)[3] = <<"0">>
       /\ ret.v.v["X-Signature"] =
            sign(bah.secret,
                 canonical_string(bah.method, bsh.path, <<"0">>, bsh.nonce,
                                  sha256_hex(bah.body_string)))

\* C23 witness: a Strict-mode call whose clock reading failed returned its
\* headers with X-Timestamp 0.
C23_Witness ==
  /\ Returned /\ ret.v.ok
  /\ work.clock_reads = 1
  /\ ~bah.use_pop /\ client.options.replay_protection = "Strict"
  /\ ret.v.v["X-Timestamp"] = <<"0">>
  /\ <<"0">> \notin ClockTimestamps

\* C24: in every call that signed and returned Ok (PoP, Strict or Nonce) the
\* headers agree with what was signed: X-Timestamp and X-Nonce are the third
\* and fourth field of the canonical string X-Signature covers, X-Body-Sha256
\* when present is its fifth field, the clock was read once, one nonce drawn
\* and one HMAC computed, and the HMAC key is pop_key on the PoP path and the
\* client's signing_secret on the Strict and Nonce paths.
C24_HeadersMatchSignedString ==
  (Returned /\ ret.v.ok /\ HasSigned) =>
    LET headers == ret.v.v
        fields  == Split(bsh.canonical, NL)
        key     == IF bah.use_pop THEN bah.pop_key.v ELSE client.options.signing_secret.v
    IN /\ Len(fields) = 5
       /\ headers["X-Timestamp"] = fields[3]
       /\ headers["X-Nonce"] = fields[4]
       /\ "X-Body-Sha256" \in DOMAIN headers => headers["X-Body-Sha256"] = fields[5]
       /\ headers["X-Signature"] = hex_lower(HmacSha256(as_bytes(key), as_bytes(bsh.canonical)))
       /\ work.clock_reads = 1 /\ work.nonce_draws = 1 /\ work.hmacs = 1
       /\ (~bah.use_pop) => client.options.replay_protection \in {"Strict", "Nonce"}

\* C24 witness: a Nonce-mode call returned its signed headers, without
\* X-Body-Sha256, the timestamp header being the one that was signed.
C24_Witness ==
  /\ Returned /\ ret.v.ok /\ HasSigned
  /\ ~bah.use_pop /\ client.options.replay_protection = "Nonce"
  /\ "X-Body-Sha256" \notin DOMAIN ret.v.v
  /\ ret.v.v["X-Timestamp"] = Split(bsh.canonical, NL)[3]

(***************************************************************************)
(* Where post sends the credentials (SpecOrigin)                           *)
(***************************************************************************)

\* Clients of one base URL: a bearer client and a Strict-mode client.
OriginClientOptions ==
  {o \in [base_url : BaseUrls, bearer_token : {Some(<<"t", "b">>)},
          signing_secret : SigningSecrets, service_slug : {NoneOpt},
          replay_protection : {"None", "Strict"}] :
     o.signing_secret.some <=> o.replay_protection = "Strict"}

\* Endpoints of a post call: a path, a path after two slashes, an absolute
\* URL of another host, and a path that climbs out of the base path.
OriginEndpoints == {<<"/", "k">>, <<"/", "/", "e", "/", "k">>, <<"h", "t", "t", "p", ":", "/", "/", "e", "/", "k">>, <<".", ".", "/", "k">>}

OriginInputs ==
  [endpoint : OriginEndpoints, payload : Payloads,
   options : {[use_pop |-> o.use_pop, access_token |-> o.access_token,
               pop_key |-> o.pop_key, extra_headers |-> EmptyMap] :
                o \in {NoOverride, PopOverride}}]

InitOrigin ==
  /\ \E options \in OriginClientOptions : new(options).ok /\ client = new(options).v
  /\ pc = "idle"
  /\ bah = NoFrame
  /\ bsh = NoSigning
  /\ ret = NoneOpt
  /\ work = NoWork
  /\ last = NoneOpt
  /\ req = NoRequest
  /\ flight = NoFlight

NewOriginClient == NewClientFrom(OriginClientOptions)

PostTo ==
  \E input \in OriginInputs :
    ApiCall("post", input, post(client, input.endpoint, input.payload, input.options))

NextOrigin ==
  \/ NewOriginClient
  \/ PostTo
  \/ PostInternalBegin
  \/ PopCheck
  \/ BearerCheck
  \/ ReplayCheck
  \/ SignPath
  \/ SignTimestamp
  \/ SignNonce
  \/ SignHeaders
  \/ MergeHeaders
  \/ AttachAuthHeaders
  \/ AttachExtraHeaders
  \/ Send
  \/ PostReturn

SpecOrigin == InitOrigin /\ [][NextOrigin]_vars

\* C25: whatever endpoint post is given, the URL that is signed and requested,
\* and so receives the Authorization header, has the scheme and host (with
\* its port) of the client's base URL and a path under the base path.
C25_CredentialsStayUnderBase ==
  (req.api = "post" /\ Sent) =>
    LET target == Url_parse(req.sent.v.url).v
        base   == Url_parse(client.base_url).v
    IN /\ AUTHORIZATION \in DOMAIN req.sent.v.headers
       /\ bah.url = req.sent.v.url
       /\ target.scheme = base.scheme
       /\ target.host = base.host
       /\ starts_with(target.path, client.base_path \o <<"/">>)

(***************************************************************************)
(* Credentials that are the empty string (SpecEmpty)                       *)
(***************************************************************************)

\* Clients whose credentials are absent, empty or not empty.
EmptyClientOptions ==
  [base_url : BaseUrls, bearer_token : {NoneOpt, Some(<<>>)},
   signing_secret : {NoneOpt, Some(<<>>), Some(<<"k", "s">>)}, service_slug : {NoneOpt},
   replay_protection : ReplayProtectionMode]

\* Overrides whose credentials are absent or empty.
EmptyPostOptions ==
  [use_pop : BOOLEAN, access_token : {NoneOpt, Some(<<>>)},
   pop_key : {NoneOpt, Some(<<>>)}]

InitEmpty ==
  /\ \E options \in EmptyClientOptions : new(options).ok /\ client = new(options).v
  /\ pc = "idle"
  /\ bah = NoFrame
  /\ bsh = NoSigning
  /\ ret = NoneOpt
  /\ work = NoWork
  /\ last = NoneOpt
  /\ req = NoRequest
  /\ flight = NoFlight

NewEmptyClient == NewClientFrom(EmptyClientOptions)

EmptyCall == PostInternalCallWith(EmptyPostOptions)

NextEmpty ==
  \/ NewEmptyClient
  \/ EmptyCall
  \/ PopCheck
  \/ BearerCheck
  \/ ReplayCheck
  \/ SignPath
  \/ SignTimestamp
  \/ SignNonce
  \/ SignHeaders
  \/ MergeHeaders
  \/ PostInternalReturn

SpecEmpty == InitEmpty /\ [][NextEmpty]_vars

\* The credentials the path of the call in progress requires are present.
CredentialsPresent ==
  IF bah.use_pop THEN bah.access_token.some /\ bah.pop_key.some
  ELSE /\ client.options.bearer_token.some
       /\ client.options.replay_protection # "None" => client.options.signing_secret.some

\* C26: required credentials are checked for presence only.  A call returns
\* Ok exactly when the credentials its path requires are present, empty or
\* not; Authorization is then "Bearer " followed by the token, which is
\* "Bearer " alone for the empty token; a signature is keyed with the secret
\* as it is, the empty one too; and no call ends in a Crypto error: every
\* error is a Config error.
C26_PresenceOnly ==
  Returned =>
    /\ ret.v.ok <=> CredentialsPresent
    /\ ~ret.v.ok => ret.v.err = "Config"
    /\ ret.v.ok =>
         LET token == IF bah.use_pop THEN bah.access_token.v
                      ELSE client.options.bearer_token.v
             key   == IF bah.use_pop THEN bah.pop_key.v
                      ELSE client.options.signing_secret.v
         IN /\ ret.v.v["Authorization"] = BearerPrefix \o token
            /\ (bah.use_pop \/ client.options.replay_protection # "None") =>
                 /\ HasSigned
                 /\ ret.v.v["X-Signature"] =
                      hex_lower(HmacSha256(as_bytes(key), as_bytes(bsh.canonical)))

\* C26 witness: a Strict-mode call on a client whose bearer_token and
\* signing_secret are both the empty string returned Ok with
\* Authorization "Bearer " and a signature under the empty key.
C26_Witness ==
  /\ Returned /\ ret.v.ok /\ HasSigned
  /\ ~bah.use_pop /\ client.options.replay_protection = "Strict"
  /\ client.options.bearer_token = Some(<<>>)
  /\ client.options.signing_secret = Some(<<>>)
  /\ ret.v.v["Authorization"] = <<"B", "e", "a", "r", "e", "r", " ">>
  /\ bah.secret = <<>>

====
